---- MODULE Spec2Model ----
(***************************************************************************)
(* buggregator/smtp-server: the per-connection SMTP session callbacks      *)
(* (session.go), the session factory and connection registry (backend.go,  *)
(* rpc CloseConnection), the MIME parser as far as Session.Data uses it    *)
(* (parser.go), and the job encoder / dispatcher bridge (jobs_rpc.go,      *)
(* pushToJobs).                                                            *)
(*                                                                         *)
(* A Session object is a record with the fields of the Go struct; the heap *)
(* of Session objects is the sequence `sessions` (an object's identity is  *)
(* its index).  Every callback is one action: the host library invokes the *)
(* callbacks of one connection strictly one after the other.               *)
(***************************************************************************)
EXTENDS Integers, Sequences, FiniteSets, Bags, TLC

(***************************************************************************)
(* Bounds of the model.                                                    *)
(***************************************************************************)
\* connections accepted during one run
MaxSessions == 2
\* RCPT TO commands accepted per transaction (the code enforces no bound)
MaxRcpt == 2
\* calls of uuid.NewString() during one run (session uuids and job ids)
MaxUuids == 3
\* rpc calls begun during one run of the step-wise model
MaxCalls == 2

\* envelope addresses offered by clients
Addrs == {"a@x", "b@y"}
\* remote addresses of accepted connections
RemoteAddrs == {"10.0.0.1:4001"}

(***************************************************************************)
(* Go's nil / optional values: <<>> is nil, <<v>> is a value.              *)
(***************************************************************************)
Nil == <<>>
Some(v) == <<v>>

(***************************************************************************)
(* Raw messages.  The bytes of a message are modelled by their structure:  *)
(* whether net/mail can parse the header block, the Subject and            *)
(* Content-Type headers, and for a multipart body whether the boundary     *)
(* parameter is present and the closing boundary line arrives, and its     *)
(* parts in source order.  A part is its Content-Disposition (disp),        *)
(* Content-Type, Content-Transfer-Encoding, file name and body.            *)
(***************************************************************************)
MsgPlain ==
    [hdrOk |-> TRUE, subject |-> "Hi", ctype |-> "", cte |-> "",
     boundary |-> "", closed |-> TRUE, body |-> "hello", parts |-> <<>>]
MsgBadHeader ==
    [hdrOk |-> FALSE, subject |-> "", ctype |-> "", cte |-> "",
     boundary |-> "", closed |-> TRUE, body |-> "garbage", parts |-> <<>>]
MsgUnclosed ==
    [hdrOk |-> TRUE, subject |-> "Mp", ctype |-> "multipart/mixed", cte |-> "",
     boundary |-> "b1", closed |-> FALSE, body |-> "", parts |-> <<>>]
\* what io.Copy leaves in the buffer when the stream fails part-way
Truncated ==
    [hdrOk |-> FALSE, subject |-> "", ctype |-> "", cte |-> "",
     boundary |-> "", closed |-> FALSE, body |-> "", parts |-> <<>>]

\* a message that is one HTML document
MsgHtml ==
    [hdrOk |-> TRUE, subject |-> "Web", ctype |-> "text/html", cte |-> "",
     boundary |-> "", closed |-> TRUE, body |-> "<b>hi</b>", parts |-> <<>>]
\* a plain message sent as 8bit in ISO-8859-1: its last byte, E9, is not
\* valid UTF-8
MsgLatin1 ==
    [hdrOk |-> TRUE, subject |-> "Menu", ctype |-> "", cte |-> "8bit",
     boundary |-> "", closed |-> TRUE, body |-> "caf<E9>", parts |-> <<>>]

\* a text part and doc.pdf, sent base64-encoded as an attachment
PartText ==
    [disp |-> "", ctype |-> "text/plain", cte |-> "", filename |-> "",
     body |-> "see attachment"]
PartPdf ==
    [disp |-> "attachment", ctype |-> "application/pdf; name=doc.pdf",
     cte |-> "base64", filename |-> "doc.pdf", body |-> "JVBERg=="]
MsgAttach ==
    [hdrOk |-> TRUE, subject |-> "Doc", ctype |-> "multipart/mixed", cte |-> "",
     boundary |-> "b1", closed |-> TRUE, body |-> "",
     parts |-> <<PartText, PartPdf>>]

\* an HTML part, doc.pdf attached and logo.png inline: no plain-text part
PartHtml ==
    [disp |-> "", ctype |-> "text/html", cte |-> "", filename |-> "",
     body |-> "<b>hi</b>"]
PartPng ==
    [disp |-> "inline", ctype |-> "image/png", cte |-> "base64",
     filename |-> "logo.png", body |-> "iVBORw=="]
MsgMixed ==
    [hdrOk |-> TRUE, subject |-> "News", ctype |-> "multipart/mixed", cte |-> "",
     boundary |-> "b1", closed |-> TRUE, body |-> "",
     parts |-> <<PartHtml, PartPdf, PartPng>>]

Messages == {MsgPlain, MsgBadHeader, MsgUnclosed, MsgHtml, MsgLatin1, MsgMixed}

VARIABLES
    sessions,     \* heap of Session objects, in creation order
    conn,         \* per session: its transport, "open" until CloseConnection closes it
    task,         \* per session: its connection task, "serving", "blocked", "exited"
    connections,  \* Plugin.connections: uuid -> session
    pusher,       \* Plugin's dispatcher: "nil" or "set"
    issued,       \* number of uuid.NewString() calls so far
    last,         \* the callback that ran last, with what it returned
    accepted,     \* per session: what the client sent since its last RSET
    configured,   \* the plugin's configuration section as the operator wrote it
    tempDir,      \* the temp directory of the host: "writable" or "unwritable"
    encoded,      \* history: identifier and uuid header of every job encoded
    calls,        \* the rpc calls of the step-wise model
    plugin        \* Plugin's lifecycle: Serve, the worker pool, a call of Stop

vars == <<sessions, conn, task, connections, pusher, issued, last, accepted,
          configured, tempDir, encoded, calls, plugin>>

SessionIds == 1..Len(sessions)

(***************************************************************************)
(* config.go.  A Config is a record of the fields the model uses (Hostname, *)
(* the timeouts and CleanupAfter are left out); an unset field has Go's     *)
(* zero value.                                                             *)
(***************************************************************************)
\* a configuration section that only names the pipeline
DefaultUserConfig ==
    [Addr |-> "", MaxMessageSize |-> 0,
     AttachmentStorage |-> [Mode |-> "", TempDir |-> ""],
     Jobs |-> [Pipeline |-> "smtp-emails", Priority |-> 0, Delay |-> 0,
               AutoAck |-> FALSE],
     IncludeRaw |-> FALSE]

\* configuration sections an operator may write: either storage mode, raw
\* copy on or off, default or explicit dispatch options
UserConfigs ==
    {[DefaultUserConfig EXCEPT !.AttachmentStorage.Mode = mode,
                               !.IncludeRaw = raw, !.Jobs = jobs] :
        mode \in {"", "tempfile"}, raw \in BOOLEAN,
        jobs \in {DefaultUserConfig.Jobs,
                  [Pipeline |-> "mail", Priority |-> 5, Delay |-> 3,
                   AutoAck |-> TRUE]}}

\* fault variant: validate as it was before the jobs section was required
validateNoPipelineCheck(c) ==
    CASE c.Addr = "" -> Some("addr is required")
      [] c.MaxMessageSize < 0 -> Some("max_message_size cannot be negative")
      [] c.AttachmentStorage.Mode \notin {"memory", "tempfile"} ->
           Some("attachment_storage.mode must be 'memory' or 'tempfile'")
      [] OTHER -> Nil

\* Config.validate: the error, or Nil
validate(c) ==
    CASE c.Addr = "" -> Some("addr is required")
      [] c.MaxMessageSize < 0 -> Some("max_message_size cannot be negative")
      [] c.AttachmentStorage.Mode \notin {"memory", "tempfile"} ->
           Some("attachment_storage.mode must be 'memory' or 'tempfile'")
      [] c.Jobs.Pipeline = "" -> Some("jobs.pipeline is required")
      [] OTHER -> Nil

\* fault variant: InitDefaults without the jobs defaults
InitDefaultsNoJobsDefaults(c) ==
    LET d == [c EXCEPT
                !.Addr = IF @ = "" THEN "127.0.0.1:1025" ELSE @,
                !.IncludeRaw = TRUE,
                !.MaxMessageSize = IF @ = 0 THEN 10 * 1024 * 1024 ELSE @,
                !.AttachmentStorage.Mode = IF @ = "" THEN "memory" ELSE @,
                !.AttachmentStorage.TempDir =
                    IF @ = "" THEN "/tmp/smtp-attachments" ELSE @]
    IN [cfg |-> d, err |-> validate(d)]

\* Config.InitDefaults: the configuration it leaves, and the error it returns
InitDefaults(c) ==
    LET d == [c EXCEPT
                !.Addr = IF @ = "" THEN "127.0.0.1:1025" ELSE @,
                !.IncludeRaw = TRUE,
                !.MaxMessageSize = IF @ = 0 THEN 10 * 1024 * 1024 ELSE @,
                !.AttachmentStorage.Mode = IF @ = "" THEN "memory" ELSE @,
                !.AttachmentStorage.TempDir =
                    IF @ = "" THEN "/tmp/smtp-attachments" ELSE @,
                !.Jobs.Priority = IF @ = 0 THEN 10 ELSE @]
    IN [cfg |-> d, err |-> validate(d)]

\* Plugin.cfg: Plugin.Init unmarshals the section and calls InitDefaults
PluginCfg == InitDefaults(configured).cfg

\* the dispatch options of the default configuration
JobsCfg == [Pipeline |-> "smtp-emails", Priority |-> 10, Delay |-> 0, AutoAck |-> FALSE]

(***************************************************************************)
(* backend.go                                                              *)
(***************************************************************************)
\* uuid.NewString(): a random (version 4) UUID, a value never returned before
NewString == issued + 1

\* fault variant: every session gets one identifier made at start-up
NewSessionObjectSharedId(id, addr) ==
    [uuid |-> 1, remoteAddr |-> addr, authenticated |-> FALSE,
     authUsername |-> "", authPassword |-> "", authMechanism |-> "",
     from |-> "", to |-> <<>>, heloName |-> "", emailData |-> <<>>,
     shouldClose |-> FALSE]

\* the &Session{...} literal of NewSession: every other field has Go's zero value
NewSessionObject(id, addr) ==
    [uuid |-> id, remoteAddr |-> addr,
     authenticated |-> FALSE, authUsername |-> "", authPassword |-> "",
     authMechanism |-> "",
     from |-> "", to |-> <<>>, heloName |-> "",
     emailData |-> <<>>, shouldClose |-> FALSE]

\* sync.Map: Store, Delete
Store(m, k, v) == (k :> v) @@ m
Delete(m, k) == [x \in DOMAIN m \ {k} |-> m[x]]

(***************************************************************************)
(* What a callback reports: `last` holds the callback that ran last.       *)
(*   returned  FALSE when the call never returns                           *)
(*   err       the error returned: Nil (the library answers 250) or        *)
(*             Some(SMTPError)                                             *)
(*   read, parse, push   Data's stages: "ok", "err", or "skip" (not run)   *)
(*   encodes, pushes     calls of ToJob and of Pusher.Push made            *)
(*   job       the job handed to the dispatcher, if one was                *)
(*   pre       Reset: the session as it was before the call                *)
(*   success   CloseConnection's success flag                              *)
(*   list      ListConnections' result                                     *)
(*   email     Data: the EmailData record built, if one was                *)
(*   parsed    Data: the ParsedMessage parseEmail returned, if it did       *)
(***************************************************************************)
Reply(op, sid) ==
    [op |-> op, sid |-> sid, returned |-> TRUE, err |-> Nil,
     read |-> "skip", parse |-> "skip", push |-> "skip",
     encodes |-> 0, pushes |-> 0, job |-> Nil, pre |-> Nil, success |-> FALSE,
     list |-> <<>>, email |-> Nil, parsed |-> Nil]

SMTPError(code, enhanced, message) ==
    [Code |-> code, EnhancedCode |-> enhanced, Message |-> message]

\* the status code the library sends for a callback's return value
StatusCode(err) == IF err = Nil THEN 250 ELSE err[1].Code

(***************************************************************************)
(* session.go: Mail, Rcpt, Reset                                           *)
(***************************************************************************)
\* fault variant: a second MAIL in a transaction is refused
MailCallRefusesNested(s, from) ==
    IF s.from # ""
    THEN [sess |-> s, err |-> Some(SMTPError(503, <<5, 5, 1>>, "Nested MAIL"))]
    ELSE [sess |-> [s EXCEPT !.from = from], err |-> Nil]

\* fault variant: a recipient already in the list is not added again
RcptCallDedup(s, to) ==
    IF \E k \in DOMAIN s.to : s.to[k] = to
    THEN [sess |-> s, err |-> Nil]
    ELSE [sess |-> [s EXCEPT !.to = Append(s.to, to)], err |-> Nil]

\* fault variant: Reset forgets the message buffer
ResetCallKeepsBuffer(s) == [s EXCEPT !.from = "", !.to = <<>>]

\* fault variant: Reset keeps the recipients
ResetCallKeepsRecipients(s) == [s EXCEPT !.from = "", !.emailData = <<>>]

MailCall(s, from) == [sess |-> [s EXCEPT !.from = from], err |-> Nil]

RcptCall(s, to) == [sess |-> [s EXCEPT !.to = Append(s.to, to)], err |-> Nil]

ResetCall(s) == [s EXCEPT !.from = "", !.to = <<>>, !.emailData = <<>>]

(***************************************************************************)
(* parser.go                                                               *)
(***************************************************************************)
\* strings.ToLower on the transfer encodings the model uses
ToLower(str) ==
    CASE str = "BASE64" -> "base64"
      [] str = "Quoted-Printable" -> "quoted-printable"
      [] OTHER -> str

\* base64.StdEncoding.DecodeString on the model's strings: Nil is a decode error
Base64Decode(str) ==
    CASE str = "aGVsbG8=" -> Some("hello")
      [] str = "PGI+aGk8L2I+" -> Some("<b>hi</b>")
      [] str = "JVBERg==" -> Some("%PDF")
      [] str = "iVBORw==" -> Some("<89>PNG")
      [] str = "" -> Some("")
      [] OTHER -> Nil

\* quotedprintable.NewReader + io.ReadAll on the model's strings: =65 is
\* the byte e, =ZZ is an error, = at the end is a soft line break
QuotedPrintableDecode(str) ==
    CASE str = "h=65llo" -> Some("hello")
      [] str = "h=ZZllo" -> Nil
      [] str = "aGVsbG8=" -> Some("aGVsbG8")
      [] OTHER -> Some(str)

\* fault variant: the encoding is matched as written, not case-insensitively
decodeContentCaseSensitive(data, encoding) ==
    CASE encoding = "base64" ->
           IF Base64Decode(data) = Nil THEN data ELSE Base64Decode(data)[1]
      [] encoding = "quoted-printable" ->
           IF QuotedPrintableDecode(data) = Nil THEN data
           ELSE QuotedPrintableDecode(data)[1]
      [] OTHER -> data

\* fault variant: content that does not decode is dropped
decodeContentDropsOnError(data, encoding) ==
    CASE ToLower(encoding) = "base64" ->
           IF Base64Decode(data) = Nil THEN "" ELSE Base64Decode(data)[1]
      [] ToLower(encoding) = "quoted-printable" ->
           IF QuotedPrintableDecode(data) = Nil THEN ""
           ELSE QuotedPrintableDecode(data)[1]
      [] OTHER -> data

decodeContent(data, encoding) ==
    CASE ToLower(encoding) = "base64" ->
           IF Base64Decode(data) = Nil THEN data ELSE Base64Decode(data)[1]
      [] ToLower(encoding) = "quoted-printable" ->
           IF QuotedPrintableDecode(data) = Nil THEN data
           ELSE QuotedPrintableDecode(data)[1]
      [] OTHER -> data

\* base64.StdEncoding.EncodeToString on the model's contents
Base64Encode(str) ==
    CASE str = "hello" -> "aGVsbG8="
      [] str = "<b>hi</b>" -> "PGI+aGk8L2I+"
      [] str = "%PDF" -> "JVBERg=="
      [] str = "<89>PNG" -> "iVBORw=="
      [] str = "" -> ""
      [] OTHER -> "base64"

\* the content type without its parameters: contentType[:strings.Index(.., ";")]
CleanContentType(contentType) ==
    CASE contentType = "application/pdf; name=doc.pdf" -> "application/pdf"
      [] OTHER -> contentType

\* mime.ParseMediaType on the model's Content-Type values: the media type
\* and whether an error is returned.  A value without a slash gives no media
\* type; a parameter without a value gives the media type and an error
ParseMediaType(contentType) ==
    CASE contentType = "text" -> [mediaType |-> "", err |-> TRUE]
      [] contentType = "text/html; charset" ->
           [mediaType |-> "text/html", err |-> TRUE]
      [] contentType = "multipart/mixed; boundary" ->
           [mediaType |-> "multipart/mixed", err |-> TRUE]
      [] OTHER -> [mediaType |-> CleanContentType(contentType), err |-> FALSE]

\* mime.ParseMediaType on a part's Content-Type: the media type
MediaType(contentType) == ParseMediaType(contentType).mediaType

\* msg.Header.Get(name): "" when the message has no such header
HeaderGet(msg, name) == IF name \in DOMAIN msg THEN msg[name] ELSE ""

\* msg.Header.AddressList(name) on the model's header values: Nil is an
\* error (header not in message, or no address list)
AddressList(msg, name) ==
    CASE HeaderGet(msg, name) = "Bob <bob@x>" ->
           Some(<<[Email |-> "bob@x", Name |-> "Bob"]>>)
      [] HeaderGet(msg, name) = "al@y, Bob <bob@x>" ->
           Some(<<[Email |-> "al@y", Name |-> ""],
                  [Email |-> "bob@x", Name |-> "Bob"]>>)
      [] OTHER -> Nil

\* steps 3 to 6 of parseEmail: the entries appended for one address header
Addresses(msg, name) ==
    IF AddressList(msg, name) = Nil THEN <<>> ELSE AddressList(msg, name)[1]

\* saveTempFile: MkdirAll, CreateTemp and Write fail when the directory cannot
\* be written; the name has the session's uuid and the file name in it
saveTempFile(s, content, filename) ==
    IF tempDir = "unwritable"
    THEN [path |-> "", err |-> TRUE]
    ELSE [path |-> CASE filename = "doc.pdf" ->
                          "/tmp/smtp-attachments/smtp-att-doc.pdf"
                     [] filename = "logo.png" ->
                          "/tmp/smtp-attachments/smtp-att-logo.png"
                     [] OTHER -> "/tmp/smtp-attachments/smtp-att-unnamed",
          err |-> FALSE]

\* fault variant: the new attachment is put in front of the list
processAttachmentParsedPrepends(s, part, parsed) ==
    LET filename == IF part.filename = "" THEN "unnamed" ELSE part.filename
        contentType == IF part.ctype = "" THEN "application/octet-stream"
                       ELSE CleanContentType(part.ctype)
        content == IF ToLower(part.cte) = "base64" /\ Base64Decode(part.body) # Nil
                   THEN Base64Decode(part.body)[1]
                   ELSE part.body
        attachment == [Filename |-> filename, Type |-> contentType, Content |-> ""]
    IN
    IF PluginCfg.AttachmentStorage.Mode = "memory"
    THEN [parsed |-> [parsed EXCEPT !.Attachments =
                        <<[attachment EXCEPT
                             !.Content = Base64Encode(content)]>> \o @],
          err |-> FALSE]
    ELSE LET saved == saveTempFile(s, content, filename) IN
         IF saved.err
         THEN [parsed |-> parsed, err |-> TRUE]
         ELSE [parsed |-> [parsed EXCEPT !.Attachments =
                             <<[attachment EXCEPT !.Content = saved.path]>> \o @],
               err |-> FALSE]

processAttachmentParsed(s, part, parsed) ==
    LET filename == IF part.filename = "" THEN "unnamed" ELSE part.filename
        contentType == IF part.ctype = "" THEN "application/octet-stream"
                       ELSE CleanContentType(part.ctype)
        content == IF ToLower(part.cte) = "base64" /\ Base64Decode(part.body) # Nil
                   THEN Base64Decode(part.body)[1]
                   ELSE part.body
        attachment == [Filename |-> filename, Type |-> contentType, Content |-> ""]
    IN
    IF PluginCfg.AttachmentStorage.Mode = "memory"
    THEN [parsed |-> [parsed EXCEPT !.Attachments =
                        Append(@, [attachment EXCEPT
                                     !.Content = Base64Encode(content)])],
          err |-> FALSE]
    ELSE LET saved == saveTempFile(s, content, filename) IN
         IF saved.err
         THEN [parsed |-> parsed, err |-> TRUE]
         ELSE [parsed |-> [parsed EXCEPT !.Attachments =
                             Append(@, [attachment EXCEPT !.Content = saved.path])],
               err |-> FALSE]

\* fault variant: HTML parts are joined like plain-text parts
processPartParsedHtmlSeparated(s, part, parsed) ==
    IF part.disp \in {"attachment", "inline"}
    THEN processAttachmentParsed(s, part, parsed)
    ELSE IF MediaType(part.ctype) \in {"text/plain", "text/html"} \/ part.ctype = ""
         THEN LET decoded == decodeContent(part.body, part.cte) IN
              [parsed |->
                 IF MediaType(part.ctype) = "text/html"
                 THEN [parsed EXCEPT !.HTMLBody =
                         IF @ = "" THEN decoded ELSE @ \o "\n\n" \o decoded]
                 ELSE [parsed EXCEPT !.TextBody =
                         IF @ = "" THEN decoded ELSE @ \o "\n\n" \o decoded],
               err |-> FALSE]
         ELSE [parsed |-> parsed, err |-> FALSE]

processPartParsed(s, part, parsed) ==
    IF part.disp \in {"attachment", "inline"}
    THEN processAttachmentParsed(s, part, parsed)
    ELSE IF MediaType(part.ctype) \in {"text/plain", "text/html"} \/ part.ctype = ""
         THEN LET decoded == decodeContent(part.body, part.cte) IN
              [parsed |->
                 IF MediaType(part.ctype) = "text/html"
                 THEN [parsed EXCEPT !.HTMLBody =
                         IF @ = "" THEN decoded ELSE @ \o decoded]
                 ELSE [parsed EXCEPT !.TextBody =
                         IF @ = "" THEN decoded ELSE @ \o "\n\n" \o decoded],
               err |-> FALSE]
         ELSE [parsed |-> parsed, err |-> FALSE]

\* the part loop of parseEmail on a body with all its boundary lines: the
\* error of processPartParsed is logged and the loop goes on
RECURSIVE processParts(_, _, _)
processParts(s, parts, parsed) ==
    IF parts = <<>> THEN parsed
    ELSE processParts(s, Tail(parts), processPartParsed(s, Head(parts), parsed).parsed)

\* strings.HasPrefix(mediaType, "multipart/")
IsMultipart(mediaType) == mediaType \in {"multipart/mixed", "multipart/alternative"}

\* parseEmail's result: state "ok" with the ParsedMessage, "err" (mail.ReadMessage
\* failed), or "hang": the part loop `continue`s on every error other than
\* io.EOF, and multipart.Reader.NextPart keeps returning the same error for an
\* empty boundary and for a body that ends before its closing boundary line
parseEmail(s, rawData) ==
    LET none == [Raw |-> <<>>, Sender |-> <<>>, Recipients |-> <<>>,
                 CCs |-> <<>>, ReplyTo |-> <<>>, AllRecipients |-> <<>>,
                 Subject |-> "", HTMLBody |-> "", TextBody |-> "",
                 Attachments |-> <<>>]
    IN
    IF rawData = <<>> \/ ~rawData[1].hdrOk
    THEN [state |-> "err", parsed |-> none]
    ELSE
      LET msg == rawData[1]
          contentType == IF msg.ctype = "" THEN "text/plain" ELSE msg.ctype
          media == ParseMediaType(contentType)
          parsed == [none EXCEPT !.Raw = rawData, !.AllRecipients = s.to,
                                 !.Sender = Addresses(msg, "From"),
                                 !.Recipients = Addresses(msg, "To"),
                                 !.CCs = Addresses(msg, "Cc"),
                                 !.ReplyTo = Addresses(msg, "Reply-To"),
                                 !.Subject = msg.subject]
      IN
      IF media.err \/ ~IsMultipart(media.mediaType)
      THEN LET decoded == decodeContent(msg.body, msg.cte) IN
           [state |-> "ok",
            parsed |-> IF media.mediaType = "text/html"
                       THEN [parsed EXCEPT !.HTMLBody = decoded]
                       ELSE [parsed EXCEPT !.TextBody = decoded]]
      ELSE IF msg.boundary = "" \/ ~msg.closed
           THEN [state |-> "hang", parsed |-> parsed]
           ELSE [state |-> "ok", parsed |-> processParts(s, msg.parts, parsed)]

(***************************************************************************)
(* jobs_rpc.go, types.go, pushToJobs                                       *)
(***************************************************************************)
\* encoding/json on a Go string: the bytes that are not valid UTF-8 are
\* replaced by U+FFFD
ToValidUTF8(str) ==
    CASE str = "caf<E9>" -> "caf<FFFD>"
      [] OTHER -> str

\* the same on the raw copy of a message, a string of all its bytes
RawToValidUTF8(raw) ==
    [k \in DOMAIN raw |->
        [raw[k] EXCEPT !.subject = ToValidUTF8(@), !.body = ToValidUTF8(@)]]

\* json.Marshal(e): the JSON object under the keys of the struct tags, its
\* strings as JSON strings, `omitempty` fields absent (Nil) when empty
Marshal(e) ==
    [event |-> e.Event, uuid |-> e.UUID, remote_addr |-> e.RemoteAddr,
     envelope |-> [from |-> ToValidUTF8(e.Envelope.From),
                   to |-> [k \in DOMAIN e.Envelope.To |->
                             ToValidUTF8(e.Envelope.To[k])],
                   helo |-> ToValidUTF8(e.Envelope.Helo)],
     authentication |->
         IF e.Auth = Nil THEN Nil
         ELSE Some([attempted |-> e.Auth[1].Attempted,
                    mechanism |-> ToValidUTF8(e.Auth[1].Mechanism),
                    username |-> ToValidUTF8(e.Auth[1].Username),
                    password |-> ToValidUTF8(e.Auth[1].Password)]),
     message |-> [headers |-> [Subject |->
                                 <<ToValidUTF8(e.Message.Headers.Subject[1])>>],
                  body |-> ToValidUTF8(e.Message.Body),
                  raw |-> IF e.Message.Raw = <<>> THEN Nil
                          ELSE Some(RawToValidUTF8(e.Message.Raw))],
     attachments |-> e.Attachments]

\* json.Unmarshal of a payload into an EmailData (ReceivedAt left out): the
\* keys back to the fields, absent keys to zero values
Unmarshal(p) ==
    [Event |-> p.event, UUID |-> p.uuid, RemoteAddr |-> p.remote_addr,
     Envelope |-> [From |-> p.envelope.from, To |-> p.envelope.to,
                   Helo |-> p.envelope.helo],
     Auth |-> IF p.authentication = Nil THEN Nil
              ELSE Some([Attempted |-> p.authentication[1].attempted,
                         Mechanism |-> p.authentication[1].mechanism,
                         Username |-> p.authentication[1].username,
                         Password |-> p.authentication[1].password]),
     Message |-> [Headers |-> p.message.headers, Body |-> p.message.body,
                  Raw |-> IF p.message.raw = Nil THEN <<>>
                          ELSE p.message.raw[1]],
     Attachments |-> p.attachments]

\* fault variant: the options are the defaults, whatever the configuration
ToJobDefaultOptions(e, cfg, jobID) ==
    [Job |-> "smtp.email", Id |-> jobID, Payload |-> Marshal(e),
     Headers |-> [uuid |-> <<e.UUID>>],
     Options |-> [Pipeline |-> "smtp-emails", Priority |-> 10,
                  Delay |-> 0, AutoAck |-> FALSE]]

\* fault variant: the job is identified by the connection it came from
ToJobIdFromConnection(e, cfg, jobID) ==
    [Job |-> "smtp.email", Id |-> e.UUID, Payload |-> Marshal(e),
     Headers |-> [uuid |-> <<e.UUID>>],
     Options |-> [Pipeline |-> cfg.Pipeline, Priority |-> cfg.Priority,
                  Delay |-> cfg.Delay, AutoAck |-> cfg.AutoAck]]

\* ToJob; jobID is the value uuid.NewString() returns inside it
ToJob(e, cfg, jobID) ==
    [Job |-> "smtp.email", Id |-> jobID, Payload |-> Marshal(e),
     Headers |-> [uuid |-> <<e.UUID>>],
     Options |-> [Pipeline |-> cfg.Pipeline, Priority |-> cfg.Priority,
                  Delay |-> cfg.Delay, AutoAck |-> cfg.AutoAck]]

\* fault variant: without a dispatcher the email is dropped and success reported
pushToJobsDropsSilently(email, pushFails) ==
    IF pusher = "nil"
    THEN [err |-> FALSE, encodes |-> 0, pushes |-> 0, job |-> Nil]
    ELSE [err |-> pushFails, encodes |-> 1, pushes |-> 1,
          job |-> Some(ToJob(email, PluginCfg.Jobs, NewString))]

\* fault variant: a failed Push is tried a second time
pushToJobsRetry(email, pushFails) ==
    IF pusher = "nil"
    THEN [err |-> TRUE, encodes |-> 0, pushes |-> 0, job |-> Nil]
    ELSE [err |-> pushFails, encodes |-> 1,
          pushes |-> IF pushFails THEN 2 ELSE 1,
          job |-> Some(ToJob(email, PluginCfg.Jobs, NewString))]

\* pushFails: whether the dispatcher's Push returns an error for this job
pushToJobs(email, pushFails) ==
    IF pusher = "nil"
    THEN [err |-> TRUE, encodes |-> 0, pushes |-> 0, job |-> Nil]
    ELSE [err |-> pushFails, encodes |-> 1, pushes |-> 1,
          job |-> Some(ToJob(email, PluginCfg.Jobs, NewString))]

(***************************************************************************)
(* session.go: Data                                                        *)
(***************************************************************************)
\* a body stream: the message the client sends, and whether the stream breaks
Streams == [msg : Messages, fails : BOOLEAN]

\* fault variant: Data leaves the bytes of earlier calls in the buffer
EmailDataResetKeeps(buf) == buf

\* s.emailData.Reset() at the start of Data
EmailDataReset(buf) == <<>>

\* io.Copy(&s.emailData, r): the bytes the copy appends to the buffer
CopyBody(stream) ==
    IF stream.fails THEN [buf |-> <<Truncated>>, err |-> TRUE]
    ELSE [buf |-> <<stream.msg>>, err |-> FALSE]

\* fault variant: each attachment is put in front of the ones before it
BuildEmailDataPrepends(s, parsedMessage) ==
    [Event |-> "EMAIL_RECEIVED", UUID |-> s.uuid, RemoteAddr |-> s.remoteAddr,
     Envelope |-> [From |-> s.from, To |-> s.to, Helo |-> s.heloName],
     Auth |-> IF s.authenticated
              THEN Some([Attempted |-> TRUE, Mechanism |-> s.authMechanism,
                         Username |-> s.authUsername, Password |-> s.authPassword])
              ELSE Nil,
     Message |-> [Headers |-> [Subject |-> <<parsedMessage.Subject>>],
                  Body |-> parsedMessage.TextBody, Raw |-> parsedMessage.Raw],
     Attachments |->
         [k \in DOMAIN parsedMessage.Attachments |->
            LET att == parsedMessage.Attachments[
                           Len(parsedMessage.Attachments) + 1 - k]
            IN [Filename |-> att.Filename, ContentType |-> att.Type,
                Size |-> 0, Content |-> att.Content, Path |-> ""]]]

\* step 3 of Data: the EmailData record (ReceivedAt, a clock reading, left out)
BuildEmailData(s, parsedMessage) ==
    [Event |-> "EMAIL_RECEIVED", UUID |-> s.uuid, RemoteAddr |-> s.remoteAddr,
     Envelope |-> [From |-> s.from, To |-> s.to, Helo |-> s.heloName],
     Auth |-> IF s.authenticated
              THEN Some([Attempted |-> TRUE, Mechanism |-> s.authMechanism,
                         Username |-> s.authUsername, Password |-> s.authPassword])
              ELSE Nil,
     Message |-> [Headers |-> [Subject |-> <<parsedMessage.Subject>>],
                  Body |-> parsedMessage.TextBody, Raw |-> parsedMessage.Raw],
     Attachments |-> [k \in DOMAIN parsedMessage.Attachments |->
                        [Filename |-> parsedMessage.Attachments[k].Filename,
                         ContentType |-> parsedMessage.Attachments[k].Type,
                         Size |-> 0,
                         Content |-> parsedMessage.Attachments[k].Content,
                         Path |-> ""]]]

\* fault variant: Data returns nil although the dispatch failed
ErrPushSwallowed == Nil

\* the three errors Data returns
ErrRead == Some(SMTPError(451, <<0, 0, 0>>, "Failed to read message"))
ErrParse == Some(SMTPError(554, <<0, 0, 0>>, "Failed to parse message"))
ErrPush == Some(SMTPError(451, <<4, 3, 0>>, "Temporary failure, try again later"))

DataCall(s, stream, pushFails) ==
    LET copied == CopyBody(stream)
        s1 == [s EXCEPT !.emailData = EmailDataReset(@) \o copied.buf]
        out == [sess |-> s1, returned |-> TRUE, err |-> Nil,
                read |-> "ok", parse |-> "skip", push |-> "skip",
                encodes |-> 0, pushes |-> 0, job |-> Nil, email |-> Nil,
                parsed |-> Nil]
    IN
    IF copied.err
    THEN [out EXCEPT !.read = "err", !.err = ErrRead]
    ELSE
      LET p == parseEmail(s1, s1.emailData) IN
      CASE p.state = "hang" -> [out EXCEPT !.returned = FALSE, !.parse = "hang"]
        [] p.state = "err" ->
             [out EXCEPT !.parse = "err", !.err = ErrParse]
        [] OTHER ->
             LET emailData == BuildEmailData(s1, p.parsed)
                 pushed == pushToJobs(emailData, pushFails)
             IN
             [out EXCEPT !.parse = "ok", !.email = Some(emailData),
                         !.parsed = Some(p.parsed),
                         !.push = IF pushed.err THEN "err" ELSE "ok",
                         !.encodes = pushed.encodes, !.pushes = pushed.pushes,
                         !.job = pushed.job,
                         !.err = IF pushed.err THEN ErrPush ELSE Nil]

(***************************************************************************)
(* The state machine.                                                      *)
(***************************************************************************)
\* Plugin's lifecycle and the one call of Stop the host makes:
\*   phase   "initialized" (Init returned), "serving" (Serve returned an
\*           empty error channel), "failed" (Serve put an error on it)
\*   wPool   the worker pool: "nil", "pool", "destroyed"
\*   ctx     the context passed to Stop: "live", or "done" (deadline passed
\*           or cancelled)
\*   stop    the caller of Stop: "idle" (not called), "spawned" (goroutine
\*           started, select not reached), "parked" (blocked in select),
\*           "nil" or "ctxErr" (returned that value)
\*   closer  Stop's goroutine: "none", "start", "locked", "ranged",
\*           "destroyed", "done" (returned)
\*   doneCh  the values buffered in doneCh
\*   atStop  history: the sessions in the registry when Stop was called
\*   first   history: which came first, the end of ctx ("deadline") or the
\*           goroutine's send ("closure"); "none" before both
Initialized ==
    [phase |-> "initialized", wPool |-> "nil", ctx |-> "live", stop |-> "idle",
     closer |-> "none", doneCh |-> 0, atStop |-> {}, first |-> "none"]

\* the plugin after a Serve that created its pool
Started == [Initialized EXCEPT !.phase = "serving", !.wPool = "pool"]

Init ==
    /\ sessions = <<>>
    /\ conn = <<>>
    /\ task = <<>>
    /\ connections = <<>>
    /\ pusher \in {"nil", "set"}
    /\ issued = 0
    /\ last = Reply("Init", 0)
    /\ accepted = <<>>
    /\ configured = DefaultUserConfig
    /\ tempDir = "writable"
    /\ encoded = <<>>
    /\ calls = EmptyBag
    /\ plugin = Started

\* history: the sender of the last MAIL and the recipients of the RCPTs the
\* client sent since the last RSET (since the connection began, if none);
\* discarded: an RSET has thrown away a sender and at least one recipient;
\* auth: the mechanism and credentials of the client's last AUTH command on
\* the connection, if it sent one
NoEnvelope == [from |-> "", to |-> <<>>, discarded |-> FALSE, auth |-> Nil]

\* the library invokes a callback of session i: its task is between callbacks
\* and the transport still delivers commands
Serving(i) == i \in SessionIds /\ task[i] = "serving" /\ conn[i] = "open"

\* Backend.NewSession: a connection from addr is accepted
NewSession(addr) ==
    /\ Len(sessions) < MaxSessions
    /\ issued < MaxUuids
    /\ LET session == NewSessionObject(NewString, addr) IN
       /\ sessions' = Append(sessions, session)
       /\ connections' = Store(connections, session.uuid, Len(sessions) + 1)
       /\ last' = Reply("NewSession", Len(sessions) + 1)
    /\ conn' = Append(conn, "open")
    /\ task' = Append(task, "serving")
    /\ issued' = issued + 1
    /\ accepted' = Append(accepted, NoEnvelope)
    /\ UNCHANGED <<plugin, pusher, configured, tempDir, encoded, calls>>

Mail(i, from) ==
    /\ Serving(i)
    /\ LET r == MailCall(sessions[i], from) IN
       /\ sessions' = [sessions EXCEPT ![i] = r.sess]
       /\ last' = [Reply("Mail", i) EXCEPT !.err = r.err]
    /\ accepted' = [accepted EXCEPT ![i].from = from]
    /\ UNCHANGED <<plugin, conn, task, connections, pusher, configured, tempDir,
                   calls, issued, encoded>>

Rcpt(i, to) ==
    /\ Serving(i)
    /\ Len(sessions[i].to) < MaxRcpt
    /\ LET r == RcptCall(sessions[i], to) IN
       /\ sessions' = [sessions EXCEPT ![i] = r.sess]
       /\ last' = [Reply("Rcpt", i) EXCEPT !.err = r.err]
    /\ accepted' = [accepted EXCEPT ![i].to = Append(@, to)]
    /\ UNCHANGED <<plugin, conn, task, connections, pusher, configured, tempDir,
                   calls, issued, encoded>>

Data(i, stream, pushFails) ==
    /\ Serving(i)
    /\ LET r == DataCall(sessions[i], stream, pushFails) IN
       /\ issued + r.encodes <= MaxUuids
       /\ sessions' = [sessions EXCEPT ![i] = r.sess]
       /\ task' = [task EXCEPT ![i] = IF r.returned THEN "serving" ELSE "blocked"]
       /\ issued' = issued + r.encodes
       /\ encoded' = IF r.job = Nil THEN encoded
                     ELSE Append(encoded, [Id |-> r.job[1].Id,
                                           uuid |-> r.job[1].Headers.uuid[1]])
       /\ last' = [Reply("Data", i) EXCEPT
                     !.returned = r.returned, !.err = r.err, !.read = r.read,
                     !.parse = r.parse, !.push = r.push, !.encodes = r.encodes,
                     !.pushes = r.pushes, !.job = r.job, !.email = r.email,
                     !.parsed = r.parsed]
    /\ UNCHANGED <<plugin, conn, connections, pusher, configured, tempDir, calls,
                   accepted>>

Reset(i) ==
    /\ Serving(i)
    /\ sessions' = [sessions EXCEPT ![i] = ResetCall(sessions[i])]
    /\ last' = [Reply("Reset", i) EXCEPT !.pre = Some(sessions[i])]
    /\ accepted' = [accepted EXCEPT ![i] =
                      [from |-> "", to |-> <<>>,
                       discarded |-> @.discarded \/ (@.from # "" /\ @.to # <<>>),
                       auth |-> @.auth]]
    /\ UNCHANGED <<plugin, conn, task, connections, pusher, configured, tempDir,
                   calls, issued, encoded>>

\* the AUTH commands clients send: mechanism, username, secret
Mechanisms == {"PLAIN", "LOGIN"}
Credentials == {[username |-> "bob", password |-> "s3cret"]}

\* an AUTH command on connection i.  Session has the methods Mail, Rcpt,
\* Data, Reset and Logout and none for authentication (the library's
\* AuthSession: AuthMechanisms, Auth), so the library refuses the command
\* without calling the session, and no statement of the package assigns
\* authenticated, authMechanism, authUsername or authPassword
Auth(i, mech, cred) ==
    /\ Serving(i)
    /\ last' = [Reply("Auth", i) EXCEPT
                  !.err = Some(SMTPError(502, <<5, 7, 0>>,
                                         "Authentication not supported"))]
    /\ accepted' = [accepted EXCEPT ![i].auth =
                      Some([mechanism |-> mech, username |-> cred.username,
                            password |-> cred.password])]
    /\ UNCHANGED <<plugin, sessions, conn, task, connections, pusher, configured,
                   tempDir, calls, issued, encoded>>

\* fault variant: Logout leaves the registry entry behind
LogoutKeepsEntry(i) ==
    /\ i \in SessionIds
    /\ task[i] = "serving"
    /\ task' = [task EXCEPT ![i] = "exited"]
    /\ last' = Reply("Logout", i)
    /\ UNCHANGED <<plugin, sessions, conn, connections, pusher, configured, tempDir,
                   calls, issued, encoded, accepted>>

\* fault variant: Logout also discards the transaction
LogoutResets(i) ==
    /\ i \in SessionIds
    /\ task[i] = "serving"
    /\ sessions' = [sessions EXCEPT ![i] = ResetCall(sessions[i])]
    /\ connections' = Delete(connections, sessions[i].uuid)
    /\ task' = [task EXCEPT ![i] = "exited"]
    /\ last' = Reply("Logout", i)
    /\ UNCHANGED <<plugin, conn, pusher, configured, tempDir, calls, issued, encoded,
                   accepted>>

\* Session.Logout: the connection ends (QUIT, or the transport was closed) and
\* its task exits; no callback of the session follows
Logout(i) ==
    /\ i \in SessionIds
    /\ task[i] = "serving"
    /\ connections' = Delete(connections, sessions[i].uuid)
    /\ task' = [task EXCEPT ![i] = "exited"]
    /\ last' = Reply("Logout", i)
    /\ UNCHANGED <<plugin, sessions, conn, pusher, configured, tempDir, calls,
                   issued, encoded, accepted>>

\* fault variant: an unknown identifier is reported as closed
CloseConnectionAlwaysSucceeds(uuid) ==
    /\ IF uuid \notin DOMAIN connections
       THEN /\ last' = [Reply("CloseConnection", 0) EXCEPT !.success = TRUE]
            /\ UNCHANGED <<conn, connections>>
       ELSE /\ conn' = [conn EXCEPT ![connections[uuid]] = "closed"]
            /\ connections' = Delete(connections, uuid)
            /\ last' = [Reply("CloseConnection", connections[uuid]) EXCEPT
                          !.success = TRUE]
    /\ UNCHANGED <<plugin, sessions, task, pusher, configured, tempDir, calls,
                   issued, encoded, accepted>>

\* rpc.CloseConnection(uuid, &success)
CloseConnection(uuid) ==
    /\ IF uuid \notin DOMAIN connections
       THEN /\ last' = [Reply("CloseConnection", 0) EXCEPT
                          !.err = Some("connection not found")]
            /\ UNCHANGED <<conn, connections>>
       ELSE /\ conn' = [conn EXCEPT ![connections[uuid]] = "closed"]
            /\ connections' = Delete(connections, uuid)
            /\ last' = [Reply("CloseConnection", connections[uuid]) EXCEPT
                          !.success = TRUE]
    /\ UNCHANGED <<plugin, sessions, task, pusher, configured, tempDir, calls,
                   issued, encoded, accepted>>

\* fault variant: the snapshot entry leaves the recipients out
ConnectionInfoNoRecipients(s) ==
    [UUID |-> s.uuid, RemoteAddr |-> s.remoteAddr, From |-> s.from,
     To |-> <<>>, Authenticated |-> s.authenticated,
     Username |-> s.authUsername]

\* the ConnectionInfo literal of ListConnections
ConnectionInfo(s) ==
    [UUID |-> s.uuid, RemoteAddr |-> s.remoteAddr, From |-> s.from,
     To |-> s.to, Authenticated |-> s.authenticated,
     Username |-> s.authUsername]

\* the orders in which sync.Map.Range can visit the keys
RangeOrders(keys) ==
    {f \in [1..Cardinality(keys) -> keys] :
        \A a, b \in 1..Cardinality(keys) : a # b => f[a] # f[b]}

\* rpc.ListConnections(_, &connections)
ListConnections ==
    /\ \E order \in RangeOrders(DOMAIN connections) :
          last' = [Reply("ListConnections", 0) EXCEPT
                     !.list = [k \in DOMAIN order |->
                                 ConnectionInfo(sessions[connections[order[k]]])]]
    /\ UNCHANGED <<plugin, sessions, conn, task, connections, pusher, configured,
                   tempDir, calls, issued, encoded, accepted>>

(***************************************************************************)
(* Spec: the server with up to MaxSessions connections.  Its clients send  *)
(* the commands in the order of an SMTP transaction (MAIL, one RCPT, DATA)  *)
(* with the plain message; the dispatcher may fail.                        *)
(***************************************************************************)
Next ==
    \/ \E addr \in RemoteAddrs : NewSession(addr)
    \/ \E i \in SessionIds : sessions[i].from = "" /\ Mail(i, "a@x")
    \/ \E i \in SessionIds :
          sessions[i].from # "" /\ sessions[i].to = <<>> /\ Rcpt(i, "a@x")
    \/ \E i \in SessionIds, pushFails \in BOOLEAN :
          sessions[i].to # <<>>
          /\ Data(i, [msg |-> MsgPlain, fails |-> FALSE], pushFails)
    \/ \E i \in SessionIds : Reset(i)
    \/ \E i \in SessionIds : Logout(i)
    \/ \E uuid \in 1..MaxUuids : CloseConnection(uuid)
    \/ ListConnections

Spec == Init /\ [][Next]_vars

(***************************************************************************)
(* SpecSession: one connection from accept to logout, with every envelope  *)
(* address, every body stream and every dispatcher answer.                 *)
(***************************************************************************)
NextSession ==
    \/ \E addr \in RemoteAddrs : sessions = <<>> /\ NewSession(addr)
    \/ \E i \in SessionIds, from \in Addrs : Mail(i, from)
    \/ \E i \in SessionIds, to \in Addrs : Rcpt(i, to)
    \/ \E i \in SessionIds, stream \in Streams, pushFails \in BOOLEAN :
          Data(i, stream, pushFails)
    \/ \E i \in SessionIds : Reset(i)
    \/ \E i \in SessionIds : Logout(i)
    \/ \E uuid \in 1..MaxUuids : CloseConnection(uuid)

SpecSession == Init /\ [][NextSession]_vars

(***************************************************************************)
(* SpecAuth: one connection whose client may send AUTH commands at any     *)
(* point between its transactions' commands.                               *)
(***************************************************************************)
NextAuth ==
    \/ \E addr \in RemoteAddrs : sessions = <<>> /\ NewSession(addr)
    \/ \E i \in SessionIds, mech \in Mechanisms, cred \in Credentials :
          Auth(i, mech, cred)
    \/ \E i \in SessionIds : sessions[i].from = "" /\ Mail(i, "a@x")
    \/ \E i \in SessionIds :
          sessions[i].from # "" /\ sessions[i].to = <<>> /\ Rcpt(i, "b@y")
    \/ \E i \in SessionIds, pushFails \in BOOLEAN :
          sessions[i].to # <<>>
          /\ Data(i, [msg |-> MsgPlain, fails |-> FALSE], pushFails)
    \/ \E i \in SessionIds : Reset(i)
    \/ \E i \in SessionIds : Logout(i)

SpecAuth == Init /\ [][NextAuth]_vars

(***************************************************************************)
(* SpecParse: one connection of a plugin started with any of the           *)
(* configuration sections UserConfigs, on a host whose temp directory can  *)
(* or cannot be written.  The client sends the plain message or the        *)
(* message with an attachment, in the order of an SMTP transaction.        *)
(***************************************************************************)
InitParse ==
    /\ sessions = <<>>
    /\ conn = <<>>
    /\ task = <<>>
    /\ connections = <<>>
    /\ pusher \in {"nil", "set"}
    /\ issued = 0
    /\ last = Reply("Init", 0)
    /\ accepted = <<>>
    /\ configured \in {c \in UserConfigs : InitDefaults(c).err = Nil}
    /\ tempDir \in {"writable", "unwritable"}
    /\ encoded = <<>>
    /\ calls = EmptyBag
    /\ plugin = Started

NextParse ==
    \/ \E addr \in RemoteAddrs : sessions = <<>> /\ NewSession(addr)
    \/ \E i \in SessionIds : sessions[i].from = "" /\ Mail(i, "a@x")
    \/ \E i \in SessionIds :
          sessions[i].from # "" /\ sessions[i].to = <<>> /\ Rcpt(i, "b@y")
    \/ \E i \in SessionIds, msg \in {MsgPlain, MsgAttach}, pushFails \in BOOLEAN :
          sessions[i].to # <<>>
          /\ Data(i, [msg |-> msg, fails |-> FALSE], pushFails)
    \/ \E i \in SessionIds : Reset(i)
    \/ \E i \in SessionIds : Logout(i)

SpecParse == InitParse /\ [][NextParse]_vars

(***************************************************************************)
(* The rpc calls step by step.  CloseConnection and ListConnections run on *)
(* goroutines of their own, next to the connection tasks, and take no lock: *)
(* between two of their registry operations (Load, Delete, one visit of     *)
(* Range) any other task may run.  `calls` is the bag of the calls begun,   *)
(* finished ones included:                                                 *)
(*   pc       "close" (Load found the session), "delete" (transport         *)
(*            closed), "range" (iterating), "done" (returned)               *)
(*   target   CloseConnection: the session Load returned                    *)
(*   begin    ListConnections: the keys registered when Range began         *)
(*   visited  ListConnections: the keys Range has passed to the callback    *)
(*   result   ListConnections: the entries appended to the slice so far, as *)
(*            a bag (the order of Range is unspecified)                     *)
(* begin and visited are bookkeeping of a running Range, dropped when it    *)
(* returns.                                                                *)
(***************************************************************************)
Call(kind, uuid, pc) ==
    [kind |-> kind, uuid |-> uuid, pc |-> pc, target |-> 0, success |-> FALSE,
     err |-> Nil, begin |-> {}, visited |-> {}, result |-> EmptyBag,
     entry |-> Nil]

\* the calls with call c replaced by its next state d
Step(c, d) == (calls (-) SetToBag({c})) (+) SetToBag({d})

\* CloseConnection up to the Load
CloseLoad(uuid) ==
    /\ BagCardinality(calls) < MaxCalls
    /\ calls' = calls (+) SetToBag({
                  IF uuid \notin DOMAIN connections
                  THEN [Call("CloseConnection", uuid, "done") EXCEPT
                          !.err = Some("connection not found")]
                  ELSE [Call("CloseConnection", uuid, "close") EXCEPT
                          !.target = connections[uuid]]})
    /\ UNCHANGED <<plugin, sessions, conn, task, connections, pusher, issued, last,
                   accepted, configured, tempDir, encoded>>

\* session.conn.Conn().Close()
CloseTransport(c) ==
    /\ BagIn(c, calls)
    /\ c.kind = "CloseConnection" /\ c.pc = "close"
    /\ conn' = [conn EXCEPT ![c.target] = "closed"]
    /\ calls' = Step(c, [c EXCEPT !.pc = "delete"])
    /\ UNCHANGED <<plugin, sessions, task, connections, pusher, issued, last, accepted,
                   configured, tempDir, encoded>>

\* connections.Delete(uuid); *success = true; return nil
CloseDelete(c) ==
    /\ BagIn(c, calls)
    /\ c.kind = "CloseConnection" /\ c.pc = "delete"
    /\ connections' = Delete(connections, c.uuid)
    /\ calls' = Step(c, [c EXCEPT !.pc = "done", !.success = TRUE])
    /\ UNCHANGED <<plugin, sessions, conn, task, pusher, issued, last, accepted,
                   configured, tempDir, encoded>>

\* ListConnections up to the call of Range
RangeBegin ==
    /\ BagCardinality(calls) < MaxCalls
    /\ calls' = calls (+) SetToBag({[Call("ListConnections", 0, "range") EXCEPT
                                      !.begin = DOMAIN connections]})
    /\ UNCHANGED <<plugin, sessions, conn, task, connections, pusher, issued, last,
                   accepted, configured, tempDir, encoded>>

\* fault variant: Range passes a key to the callback without regard to the
\* keys it has passed already
RangeVisitAgain(c, u) ==
    /\ BagIn(c, calls)
    /\ c.kind = "ListConnections" /\ c.pc = "range"
    /\ u \in DOMAIN connections
    /\ BagCardinality(c.result) <= MaxSessions
    /\ calls' = Step(c, [c EXCEPT
                   !.visited = @ \cup {u},
                   !.result =
                       @ (+) SetToBag({ConnectionInfo(sessions[connections[u]])})])
    /\ UNCHANGED <<plugin, sessions, conn, task, connections, pusher, issued, last,
                   accepted, configured, tempDir, encoded>>

\* one call of Range's callback: sync.Map.Range visits no key twice, and only
\* keys that are in the map at some moment of the Range call
RangeVisit(c, u) ==
    /\ BagIn(c, calls)
    /\ c.kind = "ListConnections" /\ c.pc = "range"
    /\ u \in DOMAIN connections \ c.visited
    /\ calls' = Step(c, [c EXCEPT
                   !.visited = @ \cup {u},
                   !.result =
                       @ (+) SetToBag({ConnectionInfo(sessions[connections[u]])})])
    /\ UNCHANGED <<plugin, sessions, conn, task, connections, pusher, issued, last,
                   accepted, configured, tempDir, encoded>>

\* Range returns: every key that stayed in the map throughout has been visited
RangeEnd(c) ==
    /\ BagIn(c, calls)
    /\ c.kind = "ListConnections" /\ c.pc = "range"
    /\ (c.begin \cap DOMAIN connections) \subseteq c.visited
    /\ calls' = Step(c, [c EXCEPT !.pc = "done", !.begin = {}, !.visited = {}])
    /\ UNCHANGED <<plugin, sessions, conn, task, connections, pusher, issued, last,
                   accepted, configured, tempDir, encoded>>

(***************************************************************************)
(* SpecRegistry: connection tasks (NewSession, Logout) and rpc calls taken *)
(* step by step, in every interleaving.                                    *)
(***************************************************************************)
NextRegistry ==
    \/ \E addr \in RemoteAddrs : NewSession(addr)
    \/ \E i \in SessionIds : Logout(i)
    \/ \E uuid \in 1..MaxSessions : CloseLoad(uuid)
    \/ \E c \in BagToSet(calls) : CloseTransport(c)
    \/ \E c \in BagToSet(calls) : CloseDelete(c)
    \/ RangeBegin
    \/ \E c \in BagToSet(calls), u \in DOMAIN connections : RangeVisit(c, u)
    \/ \E c \in BagToSet(calls) : RangeEnd(c)

SpecRegistry == Init /\ [][NextRegistry]_vars

(***************************************************************************)
(* Plugin.Serve and Plugin.Stop.  Stop starts a goroutine (the closer) and  *)
(* waits in a select for its send on doneCh or for the end of ctx; the      *)
(* caller, the closer, the clock of ctx and the connection tasks run in     *)
(* every interleaving.                                                     *)
(***************************************************************************)
\* Serve: poolFails is whether server.NewPool returns an error.  The
\* dispatcher is not looked at
Serve(poolFails) ==
    /\ plugin.phase = "initialized"
    /\ plugin' = IF poolFails
                 THEN [plugin EXCEPT !.phase = "failed"]
                 ELSE [plugin EXCEPT !.phase = "serving", !.wPool = "pool"]
    /\ last' = [Reply("Serve", 0) EXCEPT
                  !.err = IF poolFails THEN Some("NewPool failed") ELSE Nil]
    /\ UNCHANGED <<sessions, conn, task, connections, pusher, issued, accepted,
                   configured, tempDir, encoded, calls>>

\* Stop up to the go statement
StopBegin ==
    /\ plugin.phase \in {"serving", "failed"}
    /\ plugin.stop = "idle"
    /\ plugin' = [plugin EXCEPT
                    !.stop = "spawned", !.closer = "start",
                    !.atStop = {connections[u] : u \in DOMAIN connections}]
    /\ UNCHANGED <<sessions, conn, task, connections, pusher, issued, last,
                   accepted, configured, tempDir, encoded, calls>>

\* the deadline of ctx passes, or the host cancels it: a caller blocked in
\* the select takes the ctx.Done() case and returns ctx.Err()
DeadlineElapses ==
    /\ plugin.stop \in {"spawned", "parked"}
    /\ plugin.ctx = "live"
    /\ plugin' = [plugin EXCEPT
                    !.ctx = "done",
                    !.stop = IF @ = "parked" THEN "ctxErr" ELSE @,
                    !.first = IF @ = "none" THEN "deadline" ELSE @]
    /\ UNCHANGED <<sessions, conn, task, connections, pusher, issued, last,
                   accepted, configured, tempDir, encoded, calls>>

\* the caller reaches the select: it takes a case that is ready, any one of
\* them when both are, and blocks when none is
StopSelect ==
    /\ plugin.stop = "spawned"
    /\ \/ /\ plugin.ctx = "done"
          /\ plugin' = [plugin EXCEPT !.stop = "ctxErr"]
       \/ /\ plugin.doneCh = 1
          /\ plugin' = [plugin EXCEPT !.stop = "nil", !.doneCh = 0]
       \/ /\ plugin.ctx = "live" /\ plugin.doneCh = 0
          /\ plugin' = [plugin EXCEPT !.stop = "parked"]
    /\ UNCHANGED <<sessions, conn, task, connections, pusher, issued, last,
                   accepted, configured, tempDir, encoded, calls>>

\* the closer: p.mu.Lock()
CloserLock ==
    /\ plugin.closer = "start"
    /\ plugin' = [plugin EXCEPT !.closer = "locked"]
    /\ UNCHANGED <<sessions, conn, task, connections, pusher, issued, last,
                   accepted, configured, tempDir, encoded, calls>>

\* the closer: p.connections.Range.  The callback returns true for every
\* entry and does nothing else
CloserRange ==
    /\ plugin.closer = "locked"
    /\ plugin' = [plugin EXCEPT !.closer = "ranged"]
    /\ UNCHANGED <<sessions, conn, task, connections, pusher, issued, last,
                   accepted, configured, tempDir, encoded, calls>>

\* the closer: the pool, if there is one, is destroyed
CloserDestroy ==
    /\ plugin.closer = "ranged"
    /\ plugin' = [plugin EXCEPT
                    !.closer = "destroyed",
                    !.wPool = IF @ = "pool" THEN "destroyed" ELSE @]
    /\ UNCHANGED <<sessions, conn, task, connections, pusher, issued, last,
                   accepted, configured, tempDir, encoded, calls>>

\* fault variant: doneCh has no buffer, the send waits for the receiver
CloserSendUnbuffered ==
    /\ plugin.closer = "destroyed"
    /\ plugin.stop = "parked"
    /\ plugin' = [plugin EXCEPT
                    !.closer = "done", !.stop = "nil",
                    !.first = IF @ = "none" THEN "closure" ELSE @]
    /\ UNCHANGED <<sessions, conn, task, connections, pusher, issued, last,
                   accepted, configured, tempDir, encoded, calls>>

\* the closer: doneCh <- struct{}{} and return (the deferred Unlock runs).
\* doneCh has room for one value and this is the only send, so the send does
\* not wait; a caller blocked in the select receives the value and returns nil
CloserSend ==
    /\ plugin.closer = "destroyed"
    /\ plugin' = [plugin EXCEPT
                    !.closer = "done",
                    !.doneCh = IF plugin.stop = "parked" THEN 0 ELSE 1,
                    !.stop = IF @ = "parked" THEN "nil" ELSE @,
                    !.first = IF @ = "none" THEN "closure" ELSE @]
    /\ UNCHANGED <<sessions, conn, task, connections, pusher, issued, last,
                   accepted, configured, tempDir, encoded, calls>>

(***************************************************************************)
(* SpecLifecycle: the plugin from Init to Stop.  Once Serve has returned    *)
(* without an error the host's listener accepts connections, which come and *)
(* go; Stop is called once.                                                 *)
(***************************************************************************)
InitLifecycle ==
    /\ sessions = <<>>
    /\ conn = <<>>
    /\ task = <<>>
    /\ connections = <<>>
    /\ pusher \in {"nil", "set"}
    /\ issued = 0
    /\ last = Reply("Init", 0)
    /\ accepted = <<>>
    /\ configured = DefaultUserConfig
    /\ tempDir = "writable"
    /\ encoded = <<>>
    /\ calls = EmptyBag
    /\ plugin = Initialized

NextLifecycle ==
    \/ \E poolFails \in BOOLEAN : Serve(poolFails)
    \/ \E addr \in RemoteAddrs : plugin.phase = "serving" /\ NewSession(addr)
    \/ \E i \in SessionIds : Logout(i)
    \/ StopBegin
    \/ DeadlineElapses
    \/ StopSelect
    \/ CloserLock
    \/ CloserRange
    \/ CloserDestroy
    \/ CloserSend

SpecLifecycle == InitLifecycle /\ [][NextLifecycle]_vars

\* the Go scheduler runs every goroutine that can run: the closer takes each
\* of its steps, and the caller of Stop reaches its select
FairLifecycle ==
    /\ SpecLifecycle
    /\ WF_vars(CloserLock) /\ WF_vars(CloserRange)
    /\ WF_vars(CloserDestroy) /\ WF_vars(CloserSend)
    /\ WF_vars(StopSelect)

(***************************************************************************)
(* SpecConfig: a Config value, valid or not, on which validate and          *)
(* InitDefaults are called, as the tests do and as Plugin.Init does.        *)
(***************************************************************************)
\* Config values: each field unset (its zero value), set to a valid value
\* or set to an invalid one
Configs ==
    {[Addr |-> addr, MaxMessageSize |-> size,
      AttachmentStorage |-> [Mode |-> mode, TempDir |-> ""],
      Jobs |-> [Pipeline |-> pipeline, Priority |-> priority, Delay |-> delay,
                AutoAck |-> autoAck],
      IncludeRaw |-> raw] :
        addr \in {"", "0.0.0.0:25"}, size \in {-1, 0, 1024},
        mode \in {"", "memory", "tempfile", "invalid"},
        pipeline \in {"", "mail"}, priority \in {0, 5}, delay \in {0, 3},
        autoAck \in BOOLEAN, raw \in BOOLEAN}

\* c.validate(): nothing is assigned
ConfigValidate ==
    /\ last' = [Reply("validate", 0) EXCEPT !.err = validate(configured)]
    /\ UNCHANGED <<sessions, conn, task, connections, pusher, issued, accepted,
                   configured, tempDir, encoded, calls, plugin>>

\* c.InitDefaults(): the defaults are assigned, then validate runs
ConfigInitDefaults ==
    /\ configured' = InitDefaults(configured).cfg
    /\ last' = [Reply("InitDefaults", 0) EXCEPT
                  !.err = InitDefaults(configured).err]
    /\ UNCHANGED <<sessions, conn, task, connections, pusher, issued, accepted,
                   tempDir, encoded, calls, plugin>>

InitConfig ==
    /\ sessions = <<>>
    /\ conn = <<>>
    /\ task = <<>>
    /\ connections = <<>>
    /\ pusher = "nil"
    /\ issued = 0
    /\ last = Reply("Init", 0)
    /\ accepted = <<>>
    /\ configured \in Configs
    /\ tempDir = "writable"
    /\ encoded = <<>>
    /\ calls = EmptyBag
    /\ plugin = Initialized

NextConfig == ConfigValidate \/ ConfigInitDefaults

SpecConfig == InitConfig /\ [][NextConfig]_vars

(***************************************************************************)
(* SpecMime: one connection of a plugin in either storage mode, whose       *)
(* client sends as its first message one of any shape below: parseEmail is *)
(* applied to it by Data.                                                   *)
(***************************************************************************)
\* parts of a multipart message, at most
MaxParts == 3

\* further parts: an empty text part, a base64 text part without a
\* Content-Type, an image and an embedded multipart, both without a
\* Content-Disposition
PartEmpty ==
    [disp |-> "", ctype |-> "text/plain", cte |-> "", filename |-> "",
     body |-> ""]
PartNoType ==
    [disp |-> "", ctype |-> "", cte |-> "BASE64", filename |-> "",
     body |-> "aGVsbG8="]
PartImage ==
    [disp |-> "", ctype |-> "image/png", cte |-> "base64", filename |-> "",
     body |-> "iVBORw=="]
PartNested ==
    [disp |-> "", ctype |-> "multipart/alternative", cte |-> "",
     filename |-> "", body |-> "--b2 ... --b2--"]

PartKinds ==
    {PartText, PartHtml, PartPdf, PartPng, PartEmpty, PartNoType, PartImage,
     PartNested}

\* the address headers of a message: none, well-formed ones, or a From that
\* is no address list next to a well-formed To
AddressHeaders ==
    {<<>>,
     ("From" :> "Bob <bob@x>") @@ ("To" :> "al@y, Bob <bob@x>")
        @@ ("Cc" :> "Bob <bob@x>") @@ ("Reply-To" :> "Bob <bob@x>"),
     ("From" :> "not an address") @@ ("To" :> "al@y, Bob <bob@x>")
        @@ ("Cc" :> "") @@ ("Reply-To" :> "<")}

\* messages that are not multipart: Content-Type absent, text, not text,
\* or not parsable; every transfer encoding; bodies that decode and bodies
\* that do not
SimpleMessages ==
    {[hdrOk |-> TRUE, subject |-> "Hi", ctype |-> ctype, cte |-> cte,
      boundary |-> "", closed |-> TRUE, body |-> body, parts |-> <<>>] @@ hdrs :
        ctype \in {"", "text/plain", "text/html", "application/json", "text",
                   "text/html; charset", "multipart/mixed; boundary"},
        cte \in {"", "7bit", "base64", "BASE64", "quoted-printable",
                 "Quoted-Printable"},
        body \in {"hello", "aGVsbG8=", "h=65llo", "h=ZZllo"},
        hdrs \in AddressHeaders}

\* multipart messages with all their boundary lines: every sequence of at
\* most MaxParts parts
MultipartMessages ==
    {[hdrOk |-> TRUE, subject |-> "Mp", ctype |-> "multipart/mixed",
      cte |-> "", boundary |-> "b1", closed |-> TRUE, body |-> "",
      parts |-> parts] :
        parts \in UNION {[1..n -> PartKinds] : n \in 0..MaxParts}}

MimeMessages == SimpleMessages \cup MultipartMessages

InitMime ==
    /\ sessions = <<>>
    /\ conn = <<>>
    /\ task = <<>>
    /\ connections = <<>>
    /\ pusher = "set"
    /\ issued = 0
    /\ last = Reply("Init", 0)
    /\ accepted = <<>>
    /\ configured \in {c \in UserConfigs :
                          ~c.IncludeRaw /\ c.Jobs = DefaultUserConfig.Jobs}
    /\ tempDir \in {"writable", "unwritable"}
    /\ encoded = <<>>
    /\ calls = EmptyBag
    /\ plugin = Started

NextMime ==
    \/ \E addr \in RemoteAddrs : sessions = <<>> /\ NewSession(addr)
    \/ \E i \in SessionIds, msg \in MimeMessages :
          sessions[i].emailData = <<>>
          /\ Data(i, [msg |-> msg, fails |-> FALSE], FALSE)

SpecMime == InitMime /\ [][NextMime]_vars

(***************************************************************************)
(* Claims C1 to C10.                                                       *)
(***************************************************************************)

C3_ClearedAfterSuccess ==
    (last.op = "Data" /\ last.returned /\ last.err = Nil) =>
        /\ sessions[last.sid].from = ""
        /\ sessions[last.sid].to = <<>>

\* C4: Reset empties the sender, the recipient list and the message buffer of
\* its session and changes nothing else: the session keeps its uuid, remote
\* address, HELO name and authentication fields, the registry, the transports
\* and tasks and every other session stay as they were.
C4_ResetFrame ==
    [][last'.op = "Reset" =>
         LET i == last'.sid IN
         /\ Len(sessions') = Len(sessions)
         /\ sessions'[i].from = ""
         /\ sessions'[i].to = <<>>
         /\ sessions'[i].emailData = <<>>
         /\ sessions'[i].uuid = sessions[i].uuid
         /\ sessions'[i].remoteAddr = sessions[i].remoteAddr
         /\ sessions'[i].heloName = sessions[i].heloName
         /\ sessions'[i].authenticated = sessions[i].authenticated
         /\ sessions'[i].authUsername = sessions[i].authUsername
         /\ sessions'[i].authPassword = sessions[i].authPassword
         /\ sessions'[i].authMechanism = sessions[i].authMechanism
         /\ sessions'[i].shouldClose = sessions[i].shouldClose
         /\ \A j \in SessionIds \ {i} : sessions'[j] = sessions[j]
         /\ connections' = connections
         /\ sessions[i].uuid \in DOMAIN connections'
         /\ conn' = conn /\ task' = task
    ]_vars

\* Reset has run on a registered session that had a sender, recipients and a
\* buffered message
C4_Witness ==
    /\ last.op = "Reset"
    /\ last.pre # Nil
    /\ last.pre[1].from # "" /\ last.pre[1].to # <<>>
    /\ last.pre[1].emailData # <<>>
    /\ sessions[last.sid].from = "" /\ sessions[last.sid].to = <<>>
    /\ sessions[last.sid].emailData = <<>>
    /\ sessions[last.sid].uuid \in DOMAIN connections

\* C5: the job of a Data call carries the sender of the last MAIL and the
\* recipients of the RCPTs sent since the last Reset of the session, nothing
\* from before it, and the call returns nil (250) whenever the dispatcher
\* succeeds.
C5_JobAfterReset ==
    (last.op = "Data" /\ last.read = "ok" /\ last.parse = "ok") =>
        /\ pusher = "set" => last.job # Nil
        /\ last.job # Nil =>
              /\ last.job[1].Payload.envelope.from = accepted[last.sid].from
              /\ last.job[1].Payload.envelope.to = accepted[last.sid].to
        /\ last.push = "ok" => last.returned /\ last.err = Nil

\* a Reset discarded an envelope, and a later Data call of the session
\* dispatched a job and returned nil
C5_Witness ==
    /\ last.op = "Data" /\ last.returned /\ last.err = Nil
    /\ last.job # Nil
    /\ accepted[last.sid].discarded
    /\ last.job[1].Payload.envelope.from # ""
    /\ Len(last.job[1].Payload.envelope.to) = 1

\* C6: Mail and Rcpt return nil for every address in every state in which
\* the library can call them, and a Data call that returned, with or
\* without an error, leaves the session able to take the next MAIL.
C6_MailRcptAccept ==
    /\ \A i \in SessionIds : Serving(i) =>
          \A a \in Addrs : /\ MailCall(sessions[i], a).err = Nil
                           /\ RcptCall(sessions[i], a).err = Nil
    /\ last.op \in {"Mail", "Rcpt"} => last.err = Nil
    /\ (last.op = "Data" /\ last.returned /\ conn[last.sid] = "open") =>
          Serving(last.sid)

\* Mail returned nil on a session whose last Data call failed while reading
C6_Witness ==
    /\ last.op = "Mail" /\ last.err = Nil
    /\ sessions[last.sid].emailData = <<Truncated>>
    /\ sessions[last.sid].from # ""

\* C7: Rcpt appends its address at the end of the recipient list, duplicates
\* included; Mail replaces the sender and leaves the list alone; no step
\* other than a Reset of the session shortens or reorders the list.
C7_RecipientsGrow ==
    [][\A i \in SessionIds :
         /\ \A a \in Addrs :
               (last'.op = "Rcpt" /\ Rcpt(i, a)) =>
                   sessions'[i].to = Append(sessions[i].to, a)
         /\ \A a \in Addrs :
               (last'.op = "Mail" /\ Mail(i, a)) =>
                   /\ sessions'[i].to = sessions[i].to
                   /\ sessions'[i].from = a
         /\ ~(last'.op = "Reset" /\ last'.sid = i) =>
               /\ Len(sessions[i].to) <= Len(sessions'[i].to)
               /\ SubSeq(sessions'[i].to, 1, Len(sessions[i].to)) = sessions[i].to
    ]_vars

\* Rcpt has appended an address the list already held
C7_Witness ==
    /\ last.op = "Rcpt"
    /\ sessions[last.sid].to = <<"a@x", "a@x">>
    /\ sessions[last.sid].from # ""

\* C8: after a Data call that fails the envelope sender and the recipient
\* list of the session are empty, and the session takes further commands.
C8_IdleAfterFailure ==
    (last.op = "Data" /\ last.returned /\ last.err # Nil) =>
        /\ sessions[last.sid].from = ""
        /\ sessions[last.sid].to = <<>>
        /\ conn[last.sid] = "open" => Serving(last.sid)

\* C9: the registry holds exactly the sessions NewSession created that have
\* neither logged out nor been closed through CloseConnection, each under
\* its own uuid.
C9_RegistryExact ==
    /\ DOMAIN connections =
          {sessions[i].uuid : i \in {j \in SessionIds :
                                       task[j] # "exited" /\ conn[j] = "open"}}
    /\ \A u \in DOMAIN connections :
          /\ connections[u] \in SessionIds
          /\ sessions[connections[u]].uuid = u

\* one session gone (logged out or closed through CloseConnection), another
\* still registered
C9_Witness ==
    \E i, j \in SessionIds :
        /\ i # j
        /\ task[i] = "exited" \/ conn[i] = "closed"
        /\ task[j] # "exited" /\ conn[j] = "open"
        /\ DOMAIN connections = {sessions[j].uuid}

\* C10: no two sessions ever have the same uuid, a session's uuid never
\* changes, and NewSession leaves every registry entry of another session in
\* place.
C10_UuidUnique ==
    [][/\ \A i, j \in 1..Len(sessions') :
             i # j => sessions'[i].uuid # sessions'[j].uuid
       /\ \A i \in SessionIds :
             i <= Len(sessions') /\ sessions'[i].uuid = sessions[i].uuid
       /\ last'.op = "NewSession" =>
             \A u \in DOMAIN connections :
                 u \in DOMAIN connections' /\ connections'[u] = connections[u]
    ]_vars

\* a second session was created after the first had logged out
C10_Witness ==
    /\ last.op = "NewSession" /\ last.sid = 2
    /\ task[1] = "exited"
    /\ sessions[2].uuid # sessions[1].uuid
    /\ DOMAIN connections = {sessions[2].uuid}

(***************************************************************************)
(* Claims C11 to C20.                                                      *)
(***************************************************************************)

\* C11: CloseConnection(uuid) on an identifier that is not registered returns
\* an error with the success flag false and changes neither the registry nor
\* any session or transport; on a registered identifier it closes the
\* transport of that session, removes that entry and no other, and reports
\* success without an error.
C11_CloseConnection ==
    [][\A uuid \in 1..MaxUuids :
         (last'.op = "CloseConnection" /\ CloseConnection(uuid)) =>
         IF uuid \notin DOMAIN connections
         THEN /\ last'.err # Nil /\ ~last'.success
              /\ connections' = connections
              /\ sessions' = sessions /\ conn' = conn /\ task' = task
         ELSE /\ last'.err = Nil /\ last'.success
              /\ last'.sid = connections[uuid]
              /\ conn'[connections[uuid]] = "closed"
              /\ \A j \in SessionIds \ {connections[uuid]} : conn'[j] = conn[j]
              /\ DOMAIN connections' = DOMAIN connections \ {uuid}
              /\ \A v \in DOMAIN connections' : connections'[v] = connections[v]
              /\ sessions' = sessions /\ task' = task
    ]_vars

\* CloseConnection has closed one registered session while another stays
\* registered with its transport open
C11_Witness ==
    /\ last.op = "CloseConnection" /\ last.success
    /\ conn[last.sid] = "closed"
    /\ sessions[last.sid].uuid \notin DOMAIN connections
    /\ \E u \in DOMAIN connections : conn[connections[u]] = "open"

\* C12: ListConnections returns one ConnectionInfo for each session in the
\* registry and nothing else, each with the uuid, remote address, sender,
\* recipient list, authenticated flag and username the session has at the
\* time of the call, and the call changes neither the registry nor any
\* session.
C12_ListConnections ==
    [][last'.op = "ListConnections" =>
         /\ Len(last'.list) = Cardinality(DOMAIN connections)
         /\ \A u \in DOMAIN connections :
               \E k \in DOMAIN last'.list :
                   LET s == sessions[connections[u]] IN
                   /\ last'.list[k].UUID = u
                   /\ last'.list[k].RemoteAddr = s.remoteAddr
                   /\ last'.list[k].From = s.from
                   /\ last'.list[k].To = s.to
                   /\ last'.list[k].Authenticated = s.authenticated
                   /\ last'.list[k].Username = s.authUsername
         /\ connections' = connections
         /\ sessions' = sessions
         /\ conn' = conn /\ task' = task
    ]_vars

\* a snapshot of two registered sessions, one with a sender and a recipient
\* and one without
C12_Witness ==
    /\ last.op = "ListConnections"
    /\ Len(last.list) = 2
    /\ \E k \in DOMAIN last.list :
          last.list[k].From # "" /\ last.list[k].To # <<>>
    /\ \E k \in DOMAIN last.list : last.list[k].From = ""

\* C13: with NewSession, Logout, CloseConnection and ListConnections
\* interleaved step by step and no lock around them, no insert and no
\* remove is lost (the registry holds exactly the sessions inserted that
\* neither Logout nor a CloseConnection removed), and an iteration yields
\* only sessions that were inserted and none of them twice.
C13_RegistryAtomic ==
    LET inserted == {sessions[i].uuid : i \in SessionIds}
        loggedOut == {sessions[i].uuid : i \in {j \in SessionIds : task[j] = "exited"}}
        closed == {c.uuid : c \in {d \in BagToSet(calls) :
                      d.kind = "CloseConnection" /\ d.success}}
    IN
    /\ DOMAIN connections = inserted \ (loggedOut \cup closed)
    /\ \A u \in DOMAIN connections : sessions[connections[u]].uuid = u
    /\ \A c \in BagToSet(calls) :
          /\ \A info \in BagToSet(c.result) :
                /\ info.UUID \in inserted
                /\ CopiesIn(info, c.result) = 1
          /\ \A a, b \in BagToSet(c.result) : a # b => a.UUID # b.UUID

\* an iteration that began with two sessions registered has yielded one of
\* them, the other having been removed meanwhile by a CloseConnection
C13_Witness ==
    \E c, d \in BagToSet(calls) :
        /\ c.kind = "ListConnections" /\ c.pc = "range"
        /\ Cardinality(c.begin) = 2
        /\ BagCardinality(c.result) = 1
        /\ c.begin \cap DOMAIN connections \subseteq c.visited
        /\ d.kind = "CloseConnection" /\ d.success
        /\ d.uuid \in c.begin \ c.visited

\* C14: Logout returns nil and removes the entry of its own session from
\* the registry; it changes no field of any session, no transport and no
\* entry of another session, and when the entry was removed before (by a
\* CloseConnection) it leaves the registry as it is.
C14_LogoutFrame ==
    [][\A i \in SessionIds : (last'.op = "Logout" /\ Logout(i)) =>
         /\ last'.err = Nil
         /\ sessions' = sessions
         /\ conn' = conn
         /\ DOMAIN connections' = DOMAIN connections \ {sessions[i].uuid}
         /\ \A u \in DOMAIN connections' : connections'[u] = connections[u]
         /\ sessions[i].uuid \notin DOMAIN connections => connections' = connections
         /\ \A j \in SessionIds \ {i} : task'[j] = task[j]
    ]_vars

\* Logout has run on a session that CloseConnection had removed before and
\* that holds a sender and a recipient, while another session stays registered
C14_Witness ==
    /\ last.op = "Logout"
    /\ conn[last.sid] = "closed"
    /\ sessions[last.sid].from # "" /\ sessions[last.sid].to # <<>>
    /\ \E u \in DOMAIN connections : connections[u] # last.sid

\* C15: the dispatch stage of a Data call succeeds exactly when a dispatcher
\* is configured and its Push succeeded, and then the dispatcher has received
\* one job; without a dispatcher it fails on every call without a Push, a
\* Push error makes it fail, and so without a dispatcher every Data call
\* that returns returns an error.
C15_PushToJobs ==
    [][\A i \in SessionIds, stream \in Streams, pushFails \in BOOLEAN :
         (last'.op = "Data" /\ Data(i, stream, pushFails)) =>
            /\ last'.push \in {"ok", "err"} =>
                  /\ last'.push = "ok" <=> (pusher = "set" /\ ~pushFails)
                  /\ last'.push = "ok" => last'.pushes = 1 /\ last'.job # Nil
                  /\ pusher = "nil" => last'.pushes = 0 /\ last'.job = Nil
                  /\ last'.push = "err" =>
                        /\ StatusCode(last'.err) = 451
                        /\ last'.err[1].EnhancedCode = <<4, 3, 0>>
            /\ (pusher = "nil" /\ last'.returned) => last'.err # Nil
    ]_vars

\* without a dispatcher, a Data call whose read and parse succeeded has
\* failed without a Push
C15_Witness ==
    /\ pusher = "nil"
    /\ last.op = "Data" /\ last.returned
    /\ last.read = "ok" /\ last.parse = "ok" /\ last.push = "err"
    /\ last.pushes = 0 /\ last.job = Nil
    /\ StatusCode(last.err) = 451

\* C16: the job encoded for an email record has the name "smtp.email", a
\* payload that is the serialization of the whole record, a "uuid" header
\* whose one value is the record's connection identifier, and the pipeline,
\* priority, delay and auto-acknowledge of the dispatch configuration; the
\* record is still the one Data built from the session.
C16_ToJob ==
    (last.op = "Data" /\ last.job # Nil) =>
        LET job == last.job[1]
            s == sessions[last.sid]
        IN
        /\ last.email # Nil
        /\ last.email[1] = BuildEmailData(s, parseEmail(s, s.emailData).parsed)
        /\ job.Job = "smtp.email"
        /\ job.Payload = Marshal(last.email[1])
        /\ job.Payload.event = "EMAIL_RECEIVED"
        /\ job.Headers = [uuid |-> <<s.uuid>>]
        /\ job.Options.Pipeline = PluginCfg.Jobs.Pipeline
        /\ job.Options.Priority = PluginCfg.Jobs.Priority
        /\ job.Options.Delay = PluginCfg.Jobs.Delay
        /\ job.Options.AutoAck = PluginCfg.Jobs.AutoAck
        /\ configured.Jobs.Priority # 0 =>
              job.Options.Priority = configured.Jobs.Priority
        /\ job.Options.Pipeline = configured.Jobs.Pipeline

\* a job encoded under explicit dispatch options, for a message with an
\* attachment
C16_Witness ==
    /\ last.op = "Data" /\ last.job # Nil
    /\ configured.Jobs.Pipeline = "mail"
    /\ last.job[1].Options.Pipeline = "mail"
    /\ last.job[1].Options.Priority = 5
    /\ last.job[1].Options.Delay = 3
    /\ last.job[1].Options.AutoAck
    /\ Len(last.job[1].Payload.attachments) = 1

C18_ContentOrPath ==
    (last.op = "Data" /\ last.job # Nil) =>
        \A k \in DOMAIN last.job[1].Payload.attachments :
            LET att == last.job[1].Payload.attachments[k] IN
            IF PluginCfg.AttachmentStorage.Mode = "memory"
            THEN att.Content # "" /\ att.Path = ""
            ELSE att.Path # "" /\ att.Content = ""

\* C19: the dispatched payload carries the raw copy of the message only if
\* include-raw is configured on; configured off, its raw field is omitted.
C19_RawOnlyIfConfigured ==
    (last.op = "Data" /\ last.job # Nil) =>
        /\ ~configured.IncludeRaw => last.job[1].Payload.message.raw = Nil
        /\ last.job[1].Payload.message.raw # Nil => configured.IncludeRaw

\* C20: in tempfile mode, when the temp file of an attachment cannot be
\* written the Data call returns 554 and no job is dispatched.
C20_StorageErrorRejects ==
    (/\ last.op = "Data" /\ last.returned /\ last.read = "ok"
     /\ PluginCfg.AttachmentStorage.Mode = "tempfile"
     /\ tempDir = "unwritable"
     /\ sessions[last.sid].emailData = <<MsgAttach>>) =>
        /\ StatusCode(last.err) = 554
        /\ last.job = Nil /\ last.pushes = 0

\* C21: every Data call returns a response, also for a multipart body whose
\* closing boundary never arrives: the part loop ends and the session task
\* does not hang.
C21_DataReturns ==
    /\ last.op = "Data" => last.returned
    /\ \A i \in SessionIds : task[i] # "blocked"

\* C22: every authentication attempt succeeds and is captured: the session
\* records the mechanism, username and secret of the attempt, every job
\* dispatched afterwards on the connection carries an authentication block
\* with attempted = true and those values, and a job of a connection with no
\* attempt carries no authentication block.
C22_AuthCaptured ==
    /\ last.op = "Auth" => last.err = Nil
    /\ \A i \in SessionIds :
          accepted[i].auth # Nil =>
              /\ sessions[i].authenticated
              /\ sessions[i].authMechanism = accepted[i].auth[1].mechanism
              /\ sessions[i].authUsername = accepted[i].auth[1].username
              /\ sessions[i].authPassword = accepted[i].auth[1].password
    /\ (last.op = "Data" /\ last.job # Nil) =>
          last.job[1].Payload.authentication =
              IF accepted[last.sid].auth = Nil THEN Nil
              ELSE Some([attempted |-> TRUE,
                         mechanism |-> accepted[last.sid].auth[1].mechanism,
                         username |-> accepted[last.sid].auth[1].username,
                         password |-> accepted[last.sid].auth[1].password])

\* C23: with no dispatcher wired, startup fails: Serve reports an error, the
\* server does not begin to serve and no session is ever created.
C23_NoDispatcherNoServe ==
    pusher = "nil" =>
        /\ plugin.phase # "serving"
        /\ last.op = "Serve" => last.err # Nil
        /\ sessions = <<>>

\* C24: when Stop returns nil, every session that was in the registry when
\* Stop was called has had its transport closed.
C24_StopClosesTransports ==
    plugin.stop = "nil" => \A i \in plugin.atStop : conn[i] = "closed"

\* C25 as stated: Stop returns nil only after the closing work has finished,
\* and it returns the deadline error if the deadline elapses before the
\* closing work finishes.
C25_Original ==
    /\ plugin.stop = "nil" => plugin.closer = "done"
    /\ (plugin.stop \in {"nil", "ctxErr"} /\ plugin.first = "deadline") =>
          plugin.stop = "ctxErr"

\* C25: Stop waits for the closer's send or for the end of its context.  It
\* returns nil only after the closing work has finished and the deadline
\* error only after the deadline has elapsed; a Stop that is blocked waiting
\* when the deadline elapses returns the deadline error; and whatever Stop
\* returned, the closer, once started, runs to its end.
C25_StopWaits ==
    /\ [](plugin.stop = "nil" => plugin.closer = "done")
    /\ [](plugin.stop = "ctxErr" => plugin.ctx = "done")
    /\ [][(plugin.stop = "parked" /\ plugin.ctx = "live" /\ plugin'.ctx = "done")
             => plugin'.stop = "ctxErr"]_vars
    /\ [][(plugin.stop \in {"nil", "ctxErr"}) => plugin'.stop = plugin.stop]_vars
    /\ (plugin.closer = "start") ~> (plugin.closer = "done")

\* Stop has returned the deadline error and the closer has finished after it:
\* its value sits in doneCh
C25_Witness ==
    /\ plugin.stop = "ctxErr" /\ plugin.first = "deadline"
    /\ plugin.closer = "done" /\ plugin.doneCh = 1

\* C26: validate returns an error exactly when the listen address is empty,
\* the maximum message size is negative, the storage mode is neither
\* "memory" nor "tempfile", or the jobs pipeline is empty; and it leaves the
\* configuration as it was.
C26_Validate ==
    [][last'.op = "validate" =>
          /\ configured' = configured
          /\ last'.err # Nil <=>
                \/ configured.Addr = ""
                \/ configured.MaxMessageSize < 0
                \/ configured.AttachmentStorage.Mode \notin {"memory", "tempfile"}
                \/ configured.Jobs.Pipeline = ""]_vars

\* validate has refused a configuration whose only fault is the missing
\* pipeline
C26_Witness ==
    /\ last.op = "validate" /\ last.err = Some("jobs.pipeline is required")
    /\ configured.Addr = "0.0.0.0:25" /\ configured.MaxMessageSize = 1024
    /\ configured.AttachmentStorage.Mode = "tempfile"
    /\ configured.Jobs.Pipeline = ""

\* C27: InitDefaults on a configuration that names a pipeline leaves the
\* dispatch options with priority 10 when the priority was unset (zero), and
\* with the configured priority otherwise; delay, auto-acknowledge and
\* pipeline keep their values, which are 0 and false when unset.
C27_JobsDefaults ==
    [][(last'.op = "InitDefaults" /\ configured.Jobs.Pipeline # "") =>
          /\ configured'.Jobs.Priority =
                IF configured.Jobs.Priority = 0 THEN 10
                ELSE configured.Jobs.Priority
          /\ configured'.Jobs.Delay = configured.Jobs.Delay
          /\ configured'.Jobs.AutoAck = configured.Jobs.AutoAck
          /\ configured'.Jobs.Pipeline = configured.Jobs.Pipeline]_vars

\* InitDefaults has accepted a configuration with a pipeline and a delay and
\* no priority: the priority is 10, the delay is kept
C27_Witness ==
    /\ last.op = "InitDefaults" /\ last.err = Nil
    /\ configured.Jobs = [Pipeline |-> "mail", Priority |-> 10, Delay |-> 3,
                          AutoAck |-> FALSE]

\* C28: decoding the payload of a dispatched job gives back the envelope
\* (from, to, helo), the authentication (absent, or attempted, mechanism,
\* username, password) and the message (headers, body, raw) of the email
\* record that was encoded.
C28_RoundTrip ==
    (last.op = "Data" /\ last.email # Nil /\ last.job # Nil) =>
        LET e == last.email[1]
            d == Unmarshal(last.job[1].Payload)
        IN /\ d.Envelope = e.Envelope
           /\ d.Auth = e.Auth
           /\ d.Message = e.Message

C30_HtmlBody ==
    (last.op = "Data" /\ last.job # Nil) =>
        LET s == sessions[last.sid]
            parsed == parseEmail(s, s.emailData).parsed
            body == last.job[1].Payload.message.body
        IN /\ parsed.TextBody # "" => body = ToValidUTF8(parsed.TextBody)
           /\ (parsed.TextBody = "" /\ parsed.HTMLBody # "") =>
                 body = ToValidUTF8(parsed.HTMLBody)

\* C31: a message that is not multipart (Content-Type absent, not parsable
\* or not multipart/*) is parsed as one part: its body, decoded per its
\* transfer encoding, is the HTML body when the media type is text/html and
\* the plain-text body otherwise; the other body field is empty and there is
\* no attachment.
C31_SimpleBody ==
    (last.op = "Data" /\ sessions[last.sid].emailData[1] \in SimpleMessages) =>
        LET msg == sessions[last.sid].emailData[1]
            html == msg.ctype \in {"text/html", "text/html; charset"}
            enc == CASE msg.cte \in {"base64", "BASE64"} -> "b64"
                     [] msg.cte \in {"quoted-printable", "Quoted-Printable"} -> "qp"
                     [] OTHER -> "none"
            content == CASE enc = "b64" /\ msg.body = "aGVsbG8=" -> "hello"
                         [] enc = "qp" /\ msg.body = "h=65llo" -> "hello"
                         [] enc = "qp" /\ msg.body = "aGVsbG8=" -> "aGVsbG8"
                         [] OTHER -> msg.body
        IN /\ last.parse = "ok" /\ last.parsed # Nil
           /\ last.parsed[1].Subject = "Hi"
           /\ last.parsed[1].HTMLBody = IF html THEN content ELSE ""
           /\ last.parsed[1].TextBody = IF html THEN "" ELSE content
           /\ last.parsed[1].Attachments = <<>>
           /\ last.returned /\ StatusCode(last.err) = 250

\* a quoted-printable HTML message has been parsed: its decoded body is the
\* HTML body
C31_Witness ==
    /\ last.op = "Data" /\ last.parsed # Nil
    /\ sessions[last.sid].emailData[1] \in SimpleMessages
    /\ sessions[last.sid].emailData[1].ctype = "text/html"
    /\ sessions[last.sid].emailData[1].cte = "Quoted-Printable"
    /\ sessions[last.sid].emailData[1].body = "h=65llo"
    /\ last.parsed[1].HTMLBody = "hello" /\ last.parsed[1].TextBody = ""

\* C32 as stated: the parts of a multipart message are classified in source
\* order: a part with disposition attachment or inline becomes an
\* attachment; of the others, the text/plain parts and the parts without a
\* Content-Type are joined into the plain-text body with a blank line
\* between successive parts, the text/html parts are concatenated into the
\* HTML body, and any other part is dropped without error.
C32_Original ==
    (/\ last.op = "Data"
     /\ sessions[last.sid].emailData[1] \in MultipartMessages
     /\ ~(PluginCfg.AttachmentStorage.Mode = "tempfile" /\ tempDir = "unwritable")) =>
        LET RECURSIVE Join(_, _)
            Join(seq, sep) ==
                IF seq = <<>> THEN ""
                ELSE IF Len(seq) = 1 THEN seq[1]
                ELSE seq[1] \o sep \o Join(Tail(seq), sep)
            Content(p) == CASE p = PartText -> "see attachment"
                            [] p = PartNoType -> "hello"
                            [] p = PartHtml -> "<b>hi</b>"
                            [] OTHER -> ""
            parts == sessions[last.sid].emailData[1].parts
            IsAtt(p) == p.disp \in {"attachment", "inline"}
            atts == SelectSeq(parts, IsAtt)
            IsText(p) == ~IsAtt(p) /\ p.ctype \in {"text/plain", ""}
            IsHtml(p) == ~IsAtt(p) /\ p.ctype = "text/html"
            texts == SelectSeq(parts, IsText)
            htmls == SelectSeq(parts, IsHtml)
        IN /\ last.parse = "ok" /\ last.parsed # Nil
           /\ Len(last.parsed[1].Attachments) = Len(atts)
           /\ \A k \in DOMAIN atts :
                 last.parsed[1].Attachments[k].Filename = atts[k].filename
           /\ last.parsed[1].TextBody =
                 Join([k \in DOMAIN texts |-> Content(texts[k])], "\n\n")
           /\ last.parsed[1].HTMLBody =
                 Join([k \in DOMAIN htmls |-> Content(htmls[k])], "")

\* C32: as above, with the blank line put in front of a plain-text part
\* exactly when the plain-text body gathered from the parts before it is not
\* empty.
C32_PartsClassified ==
    (/\ last.op = "Data"
     /\ sessions[last.sid].emailData[1] \in MultipartMessages
     /\ ~(PluginCfg.AttachmentStorage.Mode = "tempfile" /\ tempDir = "unwritable")) =>
        LET RECURSIVE Gather(_, _, _)
            Gather(acc, seq, sep) ==
                IF seq = <<>> THEN acc
                ELSE Gather(IF acc = "" THEN seq[1] ELSE acc \o sep \o seq[1],
                            Tail(seq), sep)
            Content(p) == CASE p = PartText -> "see attachment"
                            [] p = PartNoType -> "hello"
                            [] p = PartHtml -> "<b>hi</b>"
                            [] OTHER -> ""
            parts == sessions[last.sid].emailData[1].parts
            IsAtt(p) == p.disp \in {"attachment", "inline"}
            atts == SelectSeq(parts, IsAtt)
            IsText(p) == ~IsAtt(p) /\ p.ctype \in {"text/plain", ""}
            IsHtml(p) == ~IsAtt(p) /\ p.ctype = "text/html"
            texts == SelectSeq(parts, IsText)
            htmls == SelectSeq(parts, IsHtml)
        IN /\ last.parse = "ok" /\ last.parsed # Nil
           /\ Len(last.parsed[1].Attachments) = Len(atts)
           /\ \A k \in DOMAIN atts :
                 last.parsed[1].Attachments[k].Filename = atts[k].filename
           /\ last.parsed[1].TextBody =
                 Gather("", [k \in DOMAIN texts |-> Content(texts[k])], "\n\n")
           /\ last.parsed[1].HTMLBody =
                 Gather("", [k \in DOMAIN htmls |-> Content(htmls[k])], "")

\* a message of a text part, an image without disposition and a base64 text
\* part without Content-Type has been parsed: the image is dropped, the two
\* texts are joined by a blank line
C32_Witness ==
    /\ last.op = "Data" /\ last.parsed # Nil
    /\ sessions[last.sid].emailData[1] \in MultipartMessages
    /\ sessions[last.sid].emailData[1].parts = <<PartText, PartImage, PartNoType>>
    /\ last.parsed[1].TextBody = "see attachment\n\nhello"
    /\ last.parsed[1].HTMLBody = "" /\ last.parsed[1].Attachments = <<>>


\* C33: the attachment list of a parsed multipart message has one entry for
\* every attachment or inline part that could be stored, in the order of the
\* parts in the message, and none for a part whose storing failed; a message
\* of one non-empty text part and one attachment part that can be stored
\* yields exactly one attachment and a non-empty body field of the text
\* part's kind.
C33_AttachmentList ==
    (last.op = "Data" /\ sessions[last.sid].emailData[1] \in MultipartMessages) =>
        LET parts == sessions[last.sid].emailData[1].parts
            stores == ~(PluginCfg.AttachmentStorage.Mode = "tempfile"
                        /\ tempDir = "unwritable")
            Stored(p) == p \in {PartPdf, PartPng} /\ stores
            Name(p) == IF p = PartPdf THEN "doc.pdf" ELSE "logo.png"
            Type(p) == IF p = PartPdf THEN "application/pdf" ELSE "image/png"
            stored == SelectSeq(parts, Stored)
            att == last.parsed[1].Attachments
        IN /\ last.parsed # Nil
           /\ Len(att) = Len(stored)
           /\ \A k \in DOMAIN att :
                 att[k].Filename = Name(stored[k]) /\ att[k].Type = Type(stored[k])
           /\ \A text \in {PartText, PartHtml, PartNoType} :
              \A file \in {PartPdf, PartPng} :
                 (parts \in {<<text, file>>, <<file, text>>} /\ stores) =>
                    /\ Len(att) = 1
                    /\ IF text = PartHtml THEN last.parsed[1].HTMLBody # ""
                       ELSE last.parsed[1].TextBody # ""

\* doc.pdf, a text part and logo.png have been parsed in this order: two
\* attachments, doc.pdf first
C33_Witness ==
    /\ last.op = "Data" /\ last.parsed # Nil
    /\ sessions[last.sid].emailData[1] \in MultipartMessages
    /\ sessions[last.sid].emailData[1].parts = <<PartPdf, PartText, PartPng>>
    /\ Len(last.parsed[1].Attachments) = 2
    /\ last.parsed[1].Attachments[1].Filename = "doc.pdf"
    /\ last.parsed[1].Attachments[2].Filename = "logo.png"
    /\ last.parsed[1].TextBody # ""


\* C34: no transfer encoding and no address header makes the parsing of a
\* message fail: base64 and quoted-printable bodies are decoded whatever the
\* case of the encoding's name, a body with another or no encoding is kept
\* as it is, a body that does not decode is kept undecoded, and an address
\* header that is absent or malformed gives an empty list.
C34_DecodingNeverFails ==
    (last.op = "Data" /\ sessions[last.sid].emailData[1] \in MimeMessages) =>
        /\ last.parse = "ok" /\ last.parsed # Nil
        /\ LET msg == sessions[last.sid].emailData[1]
               got == last.parsed[1].TextBody \o last.parsed[1].HTMLBody
               Malformed(name) ==
                   name \notin DOMAIN msg \/ msg[name] \in {"", "<", "not an address"}
           IN /\ msg \in SimpleMessages =>
                   /\ msg.cte \in {"", "7bit"} => got = msg.body
                   /\ (msg.cte \in {"base64", "BASE64"} /\ msg.body = "aGVsbG8=") =>
                         got = "hello"
                   /\ (msg.cte \in {"base64", "BASE64"} /\ msg.body # "aGVsbG8=") =>
                         got = msg.body
                   /\ (msg.cte \in {"quoted-printable", "Quoted-Printable"}
                       /\ msg.body = "h=65llo") => got = "hello"
                   /\ (msg.cte \in {"quoted-printable", "Quoted-Printable"}
                       /\ msg.body = "h=ZZllo") => got = "h=ZZllo"
              /\ Malformed("From") <=> last.parsed[1].Sender = <<>>
              /\ Malformed("To") <=> last.parsed[1].Recipients = <<>>
              /\ Malformed("Cc") <=> last.parsed[1].CCs = <<>>
              /\ Malformed("Reply-To") <=> last.parsed[1].ReplyTo = <<>>

\* a message with a malformed From, an empty Cc and a base64 body that is
\* not base64 has been parsed: the body is kept, the sender list is empty,
\* the two recipients are there
C34_Witness ==
    /\ last.op = "Data" /\ last.parse = "ok" /\ last.parsed # Nil
    /\ sessions[last.sid].emailData[1] \in SimpleMessages
    /\ "From" \in DOMAIN sessions[last.sid].emailData[1]
    /\ sessions[last.sid].emailData[1]["From"] = "not an address"
    /\ sessions[last.sid].emailData[1].cte = "BASE64"
    /\ sessions[last.sid].emailData[1].body = "h=ZZllo"
    /\ sessions[last.sid].emailData[1].ctype = "text/plain"
    /\ last.parsed[1].TextBody = "h=ZZllo"
    /\ last.parsed[1].Sender = <<>> /\ last.parsed[1].CCs = <<>>
    /\ Len(last.parsed[1].Recipients) = 2


\* C35: every attachment entry of a dispatched payload has in its size field
\* the number of bytes of the attachment's decoded content, in memory and in
\* tempfile mode: four for doc.pdf (%PDF) and four for logo.png (<89>PNG).
C35_AttachmentSize ==
    (last.op = "Data" /\ last.job # Nil) =>
        \A k \in DOMAIN last.job[1].Payload.attachments :
            LET att == last.job[1].Payload.attachments[k] IN
            /\ att.Filename \in {"doc.pdf", "logo.png"} => att.Size = 4
            /\ att.Size > 0


\* C36: for any connection identifier at most one CloseConnection call ever
\* reports success, also when calls for the same identifier run at the same
\* time.
C36_CloseOnce ==
    \A uuid \in 1..MaxUuids :
        LET succeeded == {c \in BagToSet(calls) :
                            c.kind = "CloseConnection" /\ c.uuid = uuid
                            /\ c.pc = "done" /\ c.success}
        IN /\ Cardinality(succeeded) <= 1
           /\ \A c \in succeeded : CopiesIn(c, calls) <= 1


(***************************************************************************)
(* SpecForceClose: Data taken in two steps, the reading of the message and *)
(* the rest of the handler, next to the steps of rpc.CloseConnection.  A   *)
(* task that has read its message has the position "data".                 *)
(***************************************************************************)

\* Data up to the end of io.Copy: a failed read ends the call with the 451
\* error, a complete one leaves the message in the session's buffer
DataRead(i, stream) ==
    /\ Serving(i)
    /\ IF CopyBody(stream).err
       THEN Data(i, stream, FALSE)
       ELSE /\ sessions' = [sessions EXCEPT ![i].emailData =
                                            EmailDataReset(@) \o CopyBody(stream).buf]
            /\ task' = [task EXCEPT ![i] = "data"]
            /\ UNCHANGED <<plugin, conn, connections, pusher, configured, tempDir,
                           calls, accepted, issued, encoded, last>>

\* Data from parseEmail to its return, on the bytes that were read: neither
\* the transport nor the registry is looked at
DataFinish(i, pushFails) ==
    /\ i \in SessionIds /\ task[i] = "data"
    /\ LET r == DataCall(sessions[i],
                         [msg |-> sessions[i].emailData[1], fails |-> FALSE],
                         pushFails) IN
       /\ issued + r.encodes <= MaxUuids
       /\ sessions' = [sessions EXCEPT ![i] = r.sess]
       /\ task' = [task EXCEPT ![i] = IF r.returned THEN "serving" ELSE "blocked"]
       /\ issued' = issued + r.encodes
       /\ encoded' = IF r.job = Nil THEN encoded
                     ELSE Append(encoded, [Id |-> r.job[1].Id,
                                           uuid |-> r.job[1].Headers.uuid[1]])
       /\ last' = [Reply("Data", i) EXCEPT
                     !.returned = r.returned, !.err = r.err, !.read = r.read,
                     !.parse = r.parse, !.push = r.push, !.encodes = r.encodes,
                     !.pushes = r.pushes, !.job = r.job, !.email = r.email,
                     !.parsed = r.parsed]
    /\ UNCHANGED <<plugin, conn, connections, pusher, configured, tempDir, calls,
                   accepted>>

\* the streams of this specification: one message, read to the end or not
ForceCloseStreams == [msg : {MsgPlain}, fails : BOOLEAN]

\* the plugin is serving with a dispatcher
InitForceClose == Init /\ pusher = "set"

NextForceClose ==
    \/ \E addr \in RemoteAddrs : NewSession(addr)
    \/ \E i \in SessionIds, stream \in ForceCloseStreams : DataRead(i, stream)
    \/ \E i \in SessionIds, pushFails \in BOOLEAN : DataFinish(i, pushFails)
    \/ \E i \in SessionIds : Logout(i)
    \/ \E uuid \in 1..MaxSessions : CloseLoad(uuid)
    \/ \E c \in BagToSet(calls) : CloseTransport(c)
    \/ \E c \in BagToSet(calls) : CloseDelete(c)

SpecForceClose == InitForceClose /\ [][NextForceClose]_vars

\* C37: once a CloseConnection call has reported success for a session, no
\* job with that session's connection identifier is handed to the dispatcher,
\* also when the session had read its message and was about to parse and
\* dispatch it when it was closed.
C37_NoJobAfterClose ==
    [][\A c \in BagToSet(calls) :
          (c.kind = "CloseConnection" /\ c.pc = "done" /\ c.success) =>
             \A k \in DOMAIN encoded' \ DOMAIN encoded :
                 encoded'[k].uuid # sessions[c.target].uuid]_vars


(***************************************************************************)
(* SpecSnapshot: the callback of ListConnections taken field by field,     *)
(* next to the callbacks of the sessions it reads.  The fields of the      *)
(* ConnectionInfo literal are read in the order they are written, without  *)
(* a lock; `entry` of a call is the literal as far as it has been read.    *)
(* Every client of this specification addresses its message to the         *)
(* sender's own mailbox and sends MAIL only at the start of a transaction, *)
(* so the recipients a session holds are always copies of its sender.  One *)
(* connection is open and one call is made.                                *)
(***************************************************************************)

\* the literal up to From
EntrySender(s) == [UUID |-> s.uuid, RemoteAddr |-> s.remoteAddr, From |-> s.from]

\* the literal from To on, and the append to result
EntryRecipients(entry, s) ==
    [UUID |-> entry.UUID, RemoteAddr |-> entry.RemoteAddr, From |-> entry.From,
     To |-> s.to, Authenticated |-> s.authenticated, Username |-> s.authUsername]

\* the callback is called for key u and reads uuid, remoteAddr and from
ListReadSender(c, u) ==
    /\ BagIn(c, calls)
    /\ c.kind = "ListConnections" /\ c.pc = "range"
    /\ u \in DOMAIN connections \ c.visited
    /\ calls' = Step(c, [c EXCEPT
                   !.pc = "entry", !.target = connections[u],
                   !.visited = @ \cup {u},
                   !.entry = Some(EntrySender(sessions[connections[u]]))])
    /\ UNCHANGED <<plugin, sessions, conn, task, connections, pusher, issued, last,
                   accepted, configured, tempDir, encoded>>

\* the callback reads to, authenticated and authUsername and returns
ListReadRecipients(c) ==
    /\ BagIn(c, calls)
    /\ c.kind = "ListConnections" /\ c.pc = "entry"
    /\ calls' = Step(c, [c EXCEPT
                   !.pc = "range", !.target = 0, !.entry = Nil,
                   !.result = @ (+) SetToBag({
                       EntryRecipients(c.entry[1], sessions[c.target])})])
    /\ UNCHANGED <<plugin, sessions, conn, task, connections, pusher, issued, last,
                   accepted, configured, tempDir, encoded>>

InitSnapshot == Init /\ pusher = "set"

NextSnapshot ==
    \/ \E addr \in RemoteAddrs : sessions = <<>> /\ NewSession(addr)
    \/ \E i \in SessionIds, from \in Addrs : sessions[i].from = "" /\ Mail(i, from)
    \/ \E i \in SessionIds : sessions[i].from # "" /\ Rcpt(i, sessions[i].from)
    \/ \E i \in SessionIds :
          sessions[i].to # <<>>
          /\ Data(i, [msg |-> MsgPlain, fails |-> FALSE], FALSE)
    \/ \E i \in SessionIds : Reset(i)
    \/ calls = EmptyBag /\ RangeBegin
    \/ \E c \in BagToSet(calls), u \in DOMAIN connections : ListReadSender(c, u)
    \/ \E c \in BagToSet(calls) : ListReadRecipients(c)
    \/ \E c \in BagToSet(calls) : RangeEnd(c)

SpecSnapshot == InitSnapshot /\ [][NextSnapshot]_vars

\* C38: an entry returned by ListConnections while the listed session runs
\* Mail, Rcpt, Reset or Data has a sender and a recipient list that the session
\* held together at one moment.  Under SpecSnapshot a session holds only
\* recipient lists made of its sender, so every such entry has only its
\* sender among its recipients.
C38_ConsistentSnapshot ==
    \A c \in BagToSet(calls) :
        c.kind = "ListConnections" =>
            \A e \in BagToSet(c.result) :
                \A k \in DOMAIN e.To : e.To[k] = e.From


(***************************************************************************)
(* SpecBuffer: one connection on which the client sends message after      *)
(* message, complete or cut off, with RSET in between or not.              *)
(***************************************************************************)
NextBuffer ==
    \/ \E addr \in RemoteAddrs : sessions = <<>> /\ NewSession(addr)
    \/ \E i \in SessionIds, from \in Addrs : Mail(i, from)
    \/ \E i \in SessionIds, stream \in Streams, pushFails \in BOOLEAN :
          Data(i, stream, pushFails)
    \/ \E i \in SessionIds : Reset(i)

SpecBuffer == Init /\ [][NextBuffer]_vars

\* C39: after a Data call the session's buffer holds exactly the bytes
\* streamed in that call, whatever earlier Data calls on the connection left
\* in it (a complete message, or the part read before a failure), and the
\* message parsed and encoded for the dispatcher is the streamed one.
C39_BufferOfThisData ==
    [][\A i \in SessionIds, stream \in Streams, pushFails \in BOOLEAN :
         (last'.op = "Data" /\ Data(i, stream, pushFails)) =>
            /\ sessions'[i].emailData =
                  IF stream.fails THEN <<Truncated>> ELSE <<stream.msg>>
            /\ last'.parsed # Nil =>
                  /\ last'.parsed[1].Raw = <<stream.msg>>
                  /\ last'.parsed[1].Subject = stream.msg.subject
            /\ last'.job # Nil =>
                  last'.job[1].Payload.message.headers.Subject
                     = <<ToValidUTF8(stream.msg.subject)>>
    ]_vars

\* the second message dispatched on a connection, an HTML message after
\* another Data call: the buffer holds the HTML message alone
C39_Witness ==
    /\ Len(encoded) = 2
    /\ last.op = "Data" /\ last.job # Nil /\ last.parsed # Nil
    /\ last.parsed[1].Raw = <<MsgHtml>>
    /\ sessions[last.sid].emailData = <<MsgHtml>>

====
